---- MODULE Spec2Model ----
(***************************************************************************)
(* Model of the expression evaluator of Matrix Brandy (evaluate.c): the    *)
(* value stack, the dyadic operator implementations, the operator table    *)
(* and dispatch matrix, the operator-precedence driver 'expression' and    *)
(* the parameter binder 'push_oneparm'.                                    *)
(*                                                                         *)
(* Integers are modelled at reduced width: an int32 of the program is an   *)
(* IntBits-bit two's complement integer and an int64 a LongBits-bit one,   *)
(* so that every overflow case of the code is reached with small numbers.  *)
(* A float64 is modelled as an exact rational <<numerator, denominator>>.  *)
(***************************************************************************)
EXTENDS Integers, Sequences, FiniteSets, TLC

VARIABLES
  stack,            \* the Basic (value) stack, bottom first
  err,              \* the error raised by error() ("ERR_NONE" when none), or
                    \* "CRASH" when undefined behaviour killed the process
  ub,               \* history: the undefined behaviour executed, "none" if none
  legacyintmaths,   \* matrixflags.legacyintmaths
  last,             \* history: the last operator applied and its operands
  current,          \* basicvars.current: index into the token stream
  tokens,           \* the token stream of the expression being evaluated
  opstack,          \* the operator stack (array), index 0 is its base
  opstop,           \* basicvars.opstop: index of the top operator entry
  lastop,           \* 'lastop' of expression()
  thisop,           \* 'thisop' of expression()
  pc,               \* position inside expression() / push_oneparm()
  applied,          \* history: operators applied by expression(), in order
  formals,          \* the formal parameter list of the called PROC/FN
  actuals,          \* the actual arguments of the call (already tokenised)
  parmno,           \* 'parmno' of the innermost push_oneparm activation
  pending,          \* evaluated arguments waiting to be moved to formals
  parmvals,         \* the values held by the formal parameter variables
  entry,            \* history: the Basic stack and operator stack on entry to
                    \* expression()
  errarg,           \* the arguments passed to error() with the error number
  ref,              \* the variable reference or indirection being evaluated
  USE_SDL,          \* whether the build has the display (USE_SDL) compiled in
  fnframe           \* basicvars.opstlimit and basicvars.local_restart, which
                    \* do_function installs for each invocation

vars == <<stack, err, ub, legacyintmaths, last, current, tokens, opstack,
          opstop, lastop, thisop, pc, applied, formals, actuals, parmno,
          pending, parmvals, entry, errarg, ref, USE_SDL, fnframe>>

(***************************************************************************)
(* Bounds of the model                                                     *)
(***************************************************************************)
IntBits == 6
LongBits == 12

(***************************************************************************)
(* Integer widths                                                          *)
(***************************************************************************)
MAXINTVAL == 2^(IntBits-1) - 1
MININTVAL == 0 - 2^(IntBits-1)
MAXINT64VAL == 2^(LongBits-1) - 1
MININT64VAL == 0 - 2^(LongBits-1)

InInt32(x) == MININTVAL <= x /\ x <= MAXINTVAL
InInt64(x) == MININT64VAL <= x /\ x <= MAXINT64VAL

\* (int32)x and (int64)x: conversion to a signed type keeps the low bits
ToInt32(x) == ((x - MININTVAL) % 2^IntBits) + MININTVAL
ToInt64(x) == ((x - MININT64VAL) % 2^LongBits) + MININT64VAL

\* An int32 expression a+b / a-b whose exact value overflows is undefined in C:
\* the build either wraps it in a 32-bit register or keeps the exact value in
\* a wider register until it is converted.
IntAddUB(a, b) == IF InInt32(a + b) THEN {a + b} ELSE {ToInt32(a + b), a + b}
IntSubUB(a, b) == IF InInt32(a - b) THEN {a - b} ELSE {ToInt32(a - b), a - b}

(***************************************************************************)
(* Operator identities and priorities                                      *)
(***************************************************************************)
OPSTACKMARK == 0
POWPRIO == 1792
MULPRIO == 1536
ADDPRIO == 1280
COMPRIO == 1024
ANDPRIO == 768
ORPRIO == 512
OP_NOP == 0
OP_ADD == 1
OP_SUB == 2
OP_MUL == 3
OP_MATMUL == 4
OP_DIV == 5
OP_INTDIV == 6
OP_MOD == 7
OP_POW == 8
OP_LSL == 9
OP_LSR == 10
OP_ASR == 11
OP_EQ == 12
OP_NE == 13
OP_GT == 14
OP_LT == 15
OP_GE == 16
OP_LE == 17
OP_AND == 18
OP_OR == 19
OP_EOR == 20
OPERMASK == 255
PRIORITY(x) == x - (x % 256)

(***************************************************************************)
(* Stack entry types (stackitem), in the column order of opfunctions       *)
(***************************************************************************)
STACK_UNKNOWN == 0
STACK_LVALUE == 1
STACK_INT == 2
STACK_INT64 == 3
STACK_FLOAT == 4
STACK_STRING == 5
STACK_STRTEMP == 6
STACK_INTARRAY == 7
STACK_IATEMP == 8
STACK_INT64ARRAY == 9
STACK_I64ATEMP == 10
STACK_FLOATARRAY == 11
STACK_FATEMP == 12
STACK_STRARRAY == 13
STACK_SATEMP == 14
STACK_LOCARRAY == 15

(***************************************************************************)
(* Floating point values: exact rationals <<n, d>> with d > 0, in lowest   *)
(* terms                                                                   *)
(***************************************************************************)
Abs(x) == IF x < 0 THEN 0 - x ELSE x

RECURSIVE GCD(_, _)
GCD(a, b) == IF b = 0 THEN a ELSE GCD(b, a % b)

Rat(n, d) ==
  LET g == GCD(Abs(n), Abs(d))
      s == IF d < 0 THEN 0 - 1 ELSE 1
  IN  <<(s * n) \div g, (s * d) \div g>>

FAdd(x, y) == Rat(x[1] * y[2] + y[1] * x[2], x[2] * y[2])
FSub(x, y) == Rat(x[1] * y[2] - y[1] * x[2], x[2] * y[2])
FMul(x, y) == Rat(x[1] * y[1], x[2] * y[2])
FDiv(x, y) == Rat(x[1] * y[2], x[2] * y[1])
FZero == <<0, 1>>

\* TOFLOAT(x): conversion of an integer to float64
TOFLOAT(x) == <<x, 1>>
\* Conversion of a float64 to an integer type truncates toward zero
Trunc(f) == IF f[1] >= 0 THEN f[1] \div f[2] ELSE 0 - ((0 - f[1]) \div f[2])
TOINT(f) == ToInt32(Trunc(f))
TOINT64(f) == ToInt64(Trunc(f))

(***************************************************************************)
(* The Basic stack (stack.c): entries are [t |-> stackitem, v |-> value].  *)
(* An array value is [dims |-> <<extents>>, el |-> <<elements>>].          *)
(***************************************************************************)
Top(s) == s[Len(s)]
Pop(s) == SubSeq(s, 1, Len(s) - 1)
Push(s, e) == Append(s, e)
GET_TOPITEM(s) == IF Len(s) = 0 THEN STACK_UNKNOWN ELSE Top(s).t

IntE(x) == [t |-> STACK_INT, v |-> x]
Int64E(x) == [t |-> STACK_INT64, v |-> x]
FloatE(f) == [t |-> STACK_FLOAT, v |-> f]
ArrE(type, dims, el) == [t |-> type, v |-> [dims |-> dims, el |-> el]]

\* push_int / push_int64 store the value in a field of that width
push_int(s, x) == Push(s, IntE(ToInt32(x)))
push_int64(s, x) == Push(s, Int64E(ToInt64(x)))
push_float(s, f) == Push(s, FloatE(f))

\* Outcomes of an operator implementation: the stack it leaves, the error it
\* raised, and the undefined behaviour it executed on the way
Ok(s) == [stack |-> s, err |-> "ERR_NONE", ub |-> "none"]
Fail(s, e) == [stack |-> s, err |-> e, ub |-> "none"]
Undefined(s, what) ==
  {[stack |-> s, err |-> "CRASH", ub |-> what],
   [stack |-> s, err |-> "ERR_NONE", ub |-> what]}

IsNumber(t) == t \in {STACK_INT, STACK_INT64, STACK_FLOAT}
AsFloat(e) == IF e.t = STACK_FLOAT THEN e.v ELSE TOFLOAT(e.v)
\* TOINT64 of a float operand, the value itself of an integer operand
AsInt64(e) == IF e.t = STACK_FLOAT THEN TOINT64(e.v) ELSE e.v

check_arrays(p1, p2) == p1.dims = p2.dims

want_number(s) ==
  LET baditem == GET_TOPITEM(s)
  IN  IF baditem \in {STACK_STRING, STACK_STRTEMP} THEN {Fail(s, "ERR_TYPENUM")}
      ELSE IF baditem > STACK_UNKNOWN /\ baditem <= STACK_SATEMP
           THEN {Fail(s, "ERR_BADARITH")}
      ELSE {Fail(s, "ERR_BROKEN")}

want_string(s) ==
  LET baditem == GET_TOPITEM(s)
  IN  IF IsNumber(baditem) THEN {Fail(s, "ERR_TYPESTR")}
      ELSE IF baditem > STACK_UNKNOWN /\ baditem <= STACK_SATEMP
           THEN {Fail(s, "ERR_BADARITH")}
      ELSE {Fail(s, "ERR_BROKEN")}

want_array(s) == {Fail(s, "ERR_VARARRAY")}

eval_badcall(s) == {Fail(s, "ERR_BROKEN")}

\* make_array(arraytype, original): the tag push_arraytemp gives the result
IATEMP(dims, el) == ArrE(STACK_IATEMP, dims, el)
I64ATEMP(dims, el) == ArrE(STACK_I64ATEMP, dims, el)
FATEMP(dims, el) == ArrE(STACK_FATEMP, dims, el)

(***************************************************************************)
(* Addition and subtraction                                                *)
(***************************************************************************)
\* Signed overflow was executed when the exact value is out of range
OvTag(inrange) == IF inrange THEN "none" ELSE "overflow"
Done(s, what) == [stack |-> s, err |-> "ERR_NONE", ub |-> what]

\* The int32 / int64 array made from the exact element values: an element out
\* of range was computed by an overflowing signed operation and is stored wrapped
WrapIA(s2, dims, exact) ==
  Done(Push(s2, IATEMP(dims, [n \in 1..Len(exact) |-> ToInt32(exact[n])])),
       OvTag(\A n \in 1..Len(exact) : InInt32(exact[n])))
WrapI64A(s2, dims, exact) ==
  Done(Push(s2, I64ATEMP(dims, [n \in 1..Len(exact) |-> ToInt64(exact[n])])),
       OvTag(\A n \in 1..Len(exact) : InInt64(exact[n])))

eval_ivplus(s) ==
  LET rhint32 == Top(s).v
      s1 == Pop(s)
      lhitem == GET_TOPITEM(s1)
      lh == Top(s1)
      s2 == Pop(s1)
  IN  IF lhitem = STACK_INT THEN
        IF legacyintmaths
        THEN {Done(push_int(s2, lh.v + rhint32), OvTag(InInt32(lh.v + rhint32)))}
        ELSE {LET lhint32 == ToInt32(lh.v + rhint32)
              IN  IF lhint64 = lhint32
                  THEN Done(push_int(s2, lhint32), OvTag(InInt32(lh.v + rhint32)))
                  ELSE Done(push_int64(s2, lhint64), OvTag(InInt32(lh.v + rhint32)))
              : lhint64 \in IntAddUB(lh.v, rhint32)}
      ELSE IF lhitem = STACK_INT64 THEN
        LET lhint32 == ToInt32(ToInt32(lh.v) + rhint32)
            lhint64 == ToInt64(lh.v + rhint32)
            tag == OvTag(InInt32(ToInt32(lh.v) + rhint32) /\ InInt64(lh.v + rhint32))
        IN  IF lhint64 = lhint32
            THEN {Done(push_int(s2, lhint32), tag)}
            ELSE {Done(push_int64(s2, lhint64), tag)}
      ELSE IF lhitem = STACK_FLOAT THEN
        {Ok(push_float(s2, FAdd(lh.v, TOFLOAT(rhint32))))}
      ELSE IF lhitem = STACK_INTARRAY THEN
        {WrapIA(s2, lh.v.dims, [n \in 1..Len(lh.v.el) |-> lh.v.el[n] + rhint32])}
      ELSE IF lhitem = STACK_INT64ARRAY THEN
        {WrapI64A(s2, lh.v.dims, [n \in 1..Len(lh.v.el) |-> lh.v.el[n] + rhint32])}
      ELSE IF lhitem \in {STACK_FLOATARRAY, STACK_FATEMP} THEN
        {Ok(Push(s2, FATEMP(lh.v.dims, [n \in 1..Len(lh.v.el) |-> FAdd(lh.v.el[n], TOFLOAT(rhint32))])))}
      ELSE want_number(s1)

eval_ivminus(s) ==
  LET rhint32 == Top(s).v
      s1 == Pop(s)
      lhitem == GET_TOPITEM(s1)
      lh == Top(s1)
      s2 == Pop(s1)
  IN  IF lhitem = STACK_INT THEN
        IF legacyintmaths
        THEN {Done(push_int(s2, lh.v - rhint32), OvTag(InInt32(lh.v - rhint32)))}
        ELSE {LET lhint32 == ToInt32(lh.v - rhint32)
              IN  IF lhint64 = lhint32
                  THEN Done(push_int(s2, lhint32), OvTag(InInt32(lh.v - rhint32)))
                  ELSE Done(push_int64(s2, lhint64), OvTag(InInt32(lh.v - rhint32)))
              : lhint64 \in IntSubUB(lh.v, rhint32)}
      ELSE IF lhitem = STACK_INT64 THEN
        LET lhint32 == ToInt32(ToInt32(lh.v) - rhint32)
            lhint64 == ToInt64(lh.v - rhint32)
            tag == OvTag(InInt32(ToInt32(lh.v) - rhint32) /\ InInt64(lh.v - rhint32))
        IN  IF lhint64 = lhint32
            THEN {Done(push_int(s2, lhint32), tag)}
            ELSE {Done(push_int64(s2, lhint64), tag)}
      ELSE IF lhitem = STACK_FLOAT THEN
        {Ok(push_float(s2, FSub(lh.v, TOFLOAT(rhint32))))}
      ELSE IF lhitem = STACK_INTARRAY THEN
        {WrapIA(s2, lh.v.dims, [n \in 1..Len(lh.v.el) |-> lh.v.el[n] - rhint32])}
      ELSE IF lhitem = STACK_INT64ARRAY THEN
        {WrapI64A(s2, lh.v.dims, [n \in 1..Len(lh.v.el) |-> lh.v.el[n] - rhint32])}
      ELSE IF lhitem \in {STACK_FLOATARRAY, STACK_FATEMP} THEN
        {Ok(Push(s2, FATEMP(lh.v.dims, [n \in 1..Len(lh.v.el) |-> FSub(lh.v.el[n], TOFLOAT(rhint32))])))}
      ELSE want_number(s1)

\* Right-hand operand is a 32-bit integer array
eval_iaplus(s) ==
  LET rharray == Top(s).v
      rhsrce == rharray.el
      s1 == Pop(s)
      lhitem == GET_TOPITEM(s1)
      lh == Top(s1)
      s2 == Pop(s1)
  IN  IF lhitem = STACK_INT THEN
        {WrapIA(s2, rharray.dims, [n \in 1..Len(rhsrce) |-> lh.v + rhsrce[n]])}
      ELSE IF lhitem = STACK_INT64 THEN
        {WrapI64A(s2, rharray.dims, [n \in 1..Len(rhsrce) |-> lh.v + rhsrce[n]])}
      ELSE IF lhitem = STACK_FLOAT THEN
        {Ok(Push(s2, FATEMP(rharray.dims, [n \in 1..Len(rhsrce) |-> FAdd(lh.v, TOFLOAT(rhsrce[n]))])))}
      ELSE IF lhitem \in {STACK_INTARRAY, STACK_INT64ARRAY, STACK_FLOATARRAY, STACK_FATEMP} THEN
        IF ~check_arrays(lh.v, rharray) THEN {Fail(s2, "ERR_TYPEARRAY")}
        ELSE IF lhitem = STACK_INTARRAY THEN
          {WrapIA(s2, rharray.dims, [n \in 1..Len(rhsrce) |-> lh.v.el[n] + rhsrce[n]])}
        ELSE IF lhitem = STACK_INT64ARRAY THEN
          {WrapI64A(s2, rharray.dims, [n \in 1..Len(rhsrce) |-> lh.v.el[n] + rhsrce[n]])}
        ELSE
          {Ok(Push(s2, FATEMP(rharray.dims, [n \in 1..Len(rhsrce) |-> FAdd(lh.v.el[n], TOFLOAT(rhsrce[n]))])))}
      ELSE want_number(s1)

(***************************************************************************)
(* Division '/': always floating point                                     *)
(***************************************************************************)
\* The elements of an array operand as float64 values
FloatElems(e) ==
  IF e.t \in {STACK_FLOATARRAY, STACK_FATEMP} THEN e.v.el ELSE [n \in 1..Len(e.v.el) |-> TOFLOAT(e.v.el[n])]

Min(S) == CHOOSE x \in S : \A y \in S : x <= y

\* <value or array> / <scalar>, after the right-hand operand 'rh' (a float64)
\* was popped and found to be non-zero; 'arrays' are the left-hand array
\* types the function's if-chain tests for
ScalarDivide(s1, rh, arrays) ==
  LET lhitem == GET_TOPITEM(s1)
      lh == Top(s1)
      s2 == Pop(s1)
  IN  IF IsNumber(lhitem) THEN {Ok(push_float(s2, FDiv(AsFloat(lh), rh)))}
      ELSE IF lhitem \in arrays \/ lhitem = STACK_FATEMP THEN
        {Ok(Push(s2, FATEMP(lh.v.dims, [n \in 1..Len(FloatElems(lh)) |-> FDiv(FloatElems(lh)[n], rh)])))}
      ELSE want_number(s1)

eval_ivdiv(s) ==
  LET rhint == Top(s).v
  IN  IF rhint = 0 THEN {Fail(Pop(s), "ERR_DIVZERO")}
      ELSE ScalarDivide(Pop(s), TOFLOAT(rhint),
                        {STACK_INTARRAY, STACK_INT64ARRAY, STACK_FLOATARRAY})

eval_iv64div(s) ==
  LET rhint == Top(s).v
  IN  IF rhint = 0 THEN {Fail(Pop(s), "ERR_DIVZERO")}
      ELSE ScalarDivide(Pop(s), TOFLOAT(rhint),
                        {STACK_INTARRAY, STACK_INT64ARRAY, STACK_FLOATARRAY})

eval_fvdiv(s) ==
  LET floatvalue == Top(s).v
  IN  IF floatvalue = FZero THEN {Fail(Pop(s), "ERR_DIVZERO")}
      ELSE ScalarDivide(Pop(s), floatvalue, {STACK_INTARRAY, STACK_FLOATARRAY})

\* The loop 'for (n = 0; n < count; n++) { if (<zero test>) error(ERR_DIVZERO);
\* base[n] = <value>; }' over the right-hand array.  zero[n] is the outcome
\* of the test the code makes on element n, trap[n] what executing the
\* statement after it does ("none", or the undefined behaviour "divzero" /
\* "overflow" of an integer division), value[n] the element stored, 'tag' the
\* type of the result.  'punned' says that the result pointer has an element
\* width other than that of the array make_array made.
ElemLoop(s2, dims, tag, zero, trap, value, punned) ==
  LET count == Len(zero)
      Z == {n \in 1..count : zero[n]}
      stop == IF Z = {} THEN count + 1 ELSE Min(Z)
      T == {n \in 1..(stop - 1) : trap[n] # "none"}
      what == IF T # {} THEN trap[Min(T)] ELSE IF punned THEN "badstore" ELSE "none"
  IN  IF T # {} THEN
        {[stack |-> s2, err |-> "CRASH", ub |-> what],
         [stack |-> s2, err |-> IF Z = {} THEN "ERR_NONE" ELSE "ERR_DIVZERO", ub |-> what]}
      ELSE IF Z # {} THEN {Fail(s2, "ERR_DIVZERO")}
      ELSE IF punned THEN Undefined(s2, "badstore")
      ELSE {Ok(Push(s2, ArrE(tag, dims, value)))}

\* <value or array> / <array>: every branch tests each right-hand element for
\* zero inside its loop, after the left-hand operand was popped and checked
ArrayDivide(s) ==
  LET rh == Top(s)
      rhsrce == FloatElems(rh)
      count == Len(rhsrce)
      s1 == Pop(s)
      lhitem == GET_TOPITEM(s1)
      lh == Top(s1)
      s2 == Pop(s1)
      zero == [n \in 1..count |-> rhsrce[n] = FZero]
      notrap == [n \in 1..count |-> "none"]
  IN  IF IsNumber(lhitem) THEN
        ElemLoop(s2, rh.v.dims, STACK_FATEMP, zero, notrap,
                 [n \in 1..count |-> FDiv(AsFloat(lh), rhsrce[n])], FALSE)
      ELSE IF lhitem \in {STACK_INTARRAY, STACK_INT64ARRAY, STACK_FLOATARRAY, STACK_FATEMP} THEN
        IF ~check_arrays(lh.v, rh.v) THEN {Fail(s2, "ERR_TYPEARRAY")}
        ELSE ElemLoop(s2, rh.v.dims, STACK_FATEMP, zero, notrap,
                      [n \in 1..count |-> FDiv(FloatElems(lh)[n], rhsrce[n])], FALSE)
      ELSE want_number(s1)

eval_iadiv(s) == ArrayDivide(s)

eval_i64adiv(s) == ArrayDivide(s)

eval_fadiv(s) == ArrayDivide(s)

(***************************************************************************)
(* Integer division DIV and remainder MOD                                  *)
(***************************************************************************)
\* The C operators / and % on integers truncate toward zero
CDiv(a, b) ==
  IF b = 0 THEN 0
  ELSE IF (a < 0) = (b < 0) THEN Abs(a) \div Abs(b) ELSE 0 - (Abs(a) \div Abs(b))
CMod(a, b) == a - b * CDiv(a, b)
\* a / b for the operator DIV, a % b for the operator MOD
IntOp(op, a, b) == IF op = OP_INTDIV THEN CDiv(a, b) ELSE CMod(a, b)

\* What executing a / b or a % b does in a type whose least value is 'lo'
TrapOf(a, b, lo) ==
  IF b = 0 THEN "divzero" ELSE IF a = lo /\ b = 0 - 1 THEN "overflow" ELSE "none"

\* TOINT64(f) when 'wide', TOINT(f) otherwise
Conv(wide, f) == IF wide THEN TOINT64(f) ELSE TOINT(f)

\* The integer-operator loop: element n of the result is L[n] op R[n],
\* computed and stored as int64 when 'wide', as int32 otherwise
IntLoop(s2, dims, wide, zero, L, R, op, punned) ==
  LET count == Len(R)
      lo == IF wide THEN MININT64VAL ELSE MININTVAL
  IN  ElemLoop(s2, dims, IF wide THEN STACK_I64ATEMP ELSE STACK_IATEMP, zero,
               [n \in 1..count |-> TrapOf(L[n], R[n], lo)],
               [n \in 1..count |-> IF wide THEN ToInt64(IntOp(op, L[n], R[n]))
                                           ELSE ToInt32(IntOp(op, L[n], R[n]))],
               punned)

\* INTDIV_INT(x) / INTMOD_INT(x): update the int32 entry on top in place
InPlaceInt(s1, x, op) ==
  LET a == Top(s1).v
  IN  IF TrapOf(a, x, MININTVAL) # "none" THEN Undefined(Pop(s1), TrapOf(a, x, MININTVAL))
      ELSE {Ok(push_int(Pop(s1), IntOp(op, a, x)))}
\* INTDIV_INT64(x) / INTMOD_INT64(x): update the entry on top in place through
\* its int64 field, which an int32 entry does not have
InPlaceInt64(s1, x, op) ==
  LET a == Top(s1).v
  IN  IF Top(s1).t # STACK_INT64 THEN Undefined(Pop(s1), "badpop")
      ELSE IF TrapOf(a, x, MININT64VAL) # "none"
           THEN Undefined(Pop(s1), TrapOf(a, x, MININT64VAL))
      ELSE {Ok(push_int64(Pop(s1), IntOp(op, a, x)))}
INTDIV_INT(s1, x) == InPlaceInt(s1, x, OP_INTDIV)
INTDIV_INT64(s1, x) == InPlaceInt64(s1, x, OP_INTDIV)
INTMOD_INT(s1, x) == InPlaceInt(s1, x, OP_MOD)
INTMOD_INT64(s1, x) == InPlaceInt64(s1, x, OP_MOD)

\* push_int64(TOINT64(pop_float()) op rhint), or push_int(...) when 'narrow'
FloatLeft(s1, rhint, op, narrow) ==
  LET a == TOINT64(Top(s1).v)
  IN  IF TrapOf(a, rhint, MININT64VAL) # "none"
      THEN Undefined(Pop(s1), TrapOf(a, rhint, MININT64VAL))
      ELSE IF narrow THEN {Ok(push_int(Pop(s1), IntOp(op, a, rhint)))}
      ELSE {Ok(push_int64(Pop(s1), IntOp(op, a, rhint)))}

\* <array> op <scalar>: 'cvwide' selects TOINT64 or TOINT for a float element
\* of the left-hand array, 'iawide' is the element type of the result pointer
\* of the <int32 array> case and 'iapunned' says that it differs from the
\* array created
ArrayLeft(s1, rhint, op, cvwide, iawide, iapunned) ==
  LET lhitem == GET_TOPITEM(s1)
      lh == Top(s1)
      count == Len(lh.v.el)
      zero == [n \in 1..count |-> FALSE]
      R == [n \in 1..count |-> rhint]
  IN  IF lhitem = STACK_INTARRAY THEN
        IntLoop(Pop(s1), lh.v.dims, iawide, zero, lh.v.el, R, op, iapunned)
      ELSE IF lhitem = STACK_INT64ARRAY THEN
        IntLoop(Pop(s1), lh.v.dims, TRUE, zero, lh.v.el, R, op, FALSE)
      ELSE IF lhitem = STACK_FLOATARRAY THEN
        IntLoop(Pop(s1), lh.v.dims, TRUE, zero,
                [n \in 1..count |-> Conv(cvwide, lh.v.el[n])], R, op, FALSE)
      ELSE want_number(s1)

eval_ivintdiv(s) ==
  LET rhint == Top(s).v
      s1 == Pop(s)
      lhitem == GET_TOPITEM(s1)
  IN  IF rhint = 0 THEN {Fail(s1, "ERR_DIVZERO")}
      ELSE IF lhitem = STACK_INT THEN INTDIV_INT(s1, rhint)
      ELSE IF lhitem = STACK_INT64 THEN INTDIV_INT64(s1, rhint)
      ELSE IF lhitem = STACK_FLOAT THEN FloatLeft(s1, rhint, OP_INTDIV, FALSE)
      ELSE ArrayLeft(s1, rhint, OP_INTDIV, TRUE, FALSE, FALSE)

eval_iv64intdiv(s) ==
  LET rhint == Top(s).v
      s1 == Pop(s)
      lhitem == GET_TOPITEM(s1)
  IN  IF rhint = 0 THEN {Fail(s1, "ERR_DIVZERO")}
      ELSE IF lhitem = STACK_INT \/ lhitem = STACK_INT64 THEN INTDIV_INT64(s1, rhint)
      ELSE IF lhitem = STACK_FLOAT THEN FloatLeft(s1, rhint, OP_INTDIV, FALSE)
      ELSE ArrayLeft(s1, rhint, OP_INTDIV, TRUE, TRUE, TRUE)

eval_fvintdiv(s) ==
  LET rhint == TOINT(Top(s).v)
      s1 == Pop(s)
      lhitem == GET_TOPITEM(s1)
  IN  IF rhint = 0 THEN {Fail(s1, "ERR_DIVZERO")}
      ELSE IF lhitem = STACK_INT THEN INTDIV_INT(s1, rhint)
      ELSE IF lhitem = STACK_INT64 THEN INTDIV_INT64(s1, rhint)
      ELSE IF lhitem = STACK_FLOAT THEN FloatLeft(s1, rhint, OP_INTDIV, TRUE)
      ELSE ArrayLeft(s1, rhint, OP_INTDIV, TRUE, FALSE, FALSE)

eval_ivmod(s) ==
  LET rhint == Top(s).v
      s1 == Pop(s)
      lhitem == GET_TOPITEM(s1)
  IN  IF rhint = 0 THEN {Fail(s1, "ERR_DIVZERO")}
      ELSE IF lhitem = STACK_INT THEN INTMOD_INT(s1, rhint)
      ELSE IF lhitem = STACK_INT64 THEN INTMOD_INT64(s1, rhint)
      ELSE IF lhitem = STACK_FLOAT THEN FloatLeft(s1, rhint, OP_MOD, FALSE)
      ELSE ArrayLeft(s1, rhint, OP_MOD, TRUE, FALSE, FALSE)

eval_iv64mod(s) ==
  LET rhint == Top(s).v
      s1 == Pop(s)
      lhitem == GET_TOPITEM(s1)
  IN  IF rhint = 0 THEN {Fail(s1, "ERR_DIVZERO")}
      ELSE IF lhitem = STACK_INT THEN INTMOD_INT(s1, ToInt32(rhint))
      ELSE IF lhitem = STACK_INT64 THEN INTMOD_INT64(s1, rhint)
      ELSE IF lhitem = STACK_FLOAT THEN FloatLeft(s1, rhint, OP_MOD, FALSE)
      ELSE ArrayLeft(s1, rhint, OP_MOD, FALSE, TRUE, FALSE)

eval_fvmod(s) ==
  LET rhint == TOINT(Top(s).v)
      s1 == Pop(s)
      lhitem == GET_TOPITEM(s1)
  IN  IF rhint = 0 THEN {Fail(s1, "ERR_DIVZERO")}
      ELSE IF lhitem = STACK_INT THEN INTMOD_INT(s1, rhint)
      ELSE IF lhitem = STACK_INT64 THEN INTMOD_INT64(s1, rhint)
      ELSE IF lhitem = STACK_FLOAT THEN FloatLeft(s1, rhint, OP_MOD, FALSE)
      ELSE ArrayLeft(s1, rhint, OP_MOD, FALSE, FALSE, FALSE)

\* <value or array> op <array>.  The elements of an integer right-hand array
\* are used as they are; an element of a float array is tested against 0.0
\* and converted to the divisor with TOINT64 or TOINT as cv[1..5] say for the
\* int32-value, int64/float-value, int32-array, int64-array and float-array
\* cases ('cvl' for a left-hand float element).  'narrow' says that the
\* int32 cases compute in int32; 'i64punned' that the <int64 array> case
\* stores through an int32 pointer
ArrayRight(s, op, narrow, cv, cvl, i64punned) ==
  LET rh == Top(s)
      rhsrce == rh.v.el
      count == Len(rhsrce)
      isfloat == rh.t \in {STACK_FLOATARRAY, STACK_FATEMP}
      s1 == Pop(s)
      lhitem == GET_TOPITEM(s1)
      lh == Top(s1)
      s2 == Pop(s1)
      zero == [n \in 1..count |-> IF isfloat THEN rhsrce[n] = FZero ELSE rhsrce[n] = 0]
      R(c) == [n \in 1..count |-> IF isfloat THEN Conv(cv[c], rhsrce[n]) ELSE rhsrce[n]]
  IN  IF lhitem = STACK_INT THEN
        IntLoop(s2, rh.v.dims, ~narrow, zero, [n \in 1..count |-> lh.v], R(1), op, FALSE)
      ELSE IF lhitem = STACK_INT64 \/ lhitem = STACK_FLOAT THEN
        IntLoop(s2, rh.v.dims, TRUE, zero, [n \in 1..count |-> AsInt64(lh)], R(2), op, FALSE)
      ELSE IF lhitem \in {STACK_INTARRAY, STACK_INT64ARRAY, STACK_FLOATARRAY} THEN
        IF ~check_arrays(lh.v, rh.v) THEN {Fail(s2, "ERR_TYPEARRAY")}
        ELSE IF lhitem = STACK_INTARRAY THEN
          IntLoop(s2, rh.v.dims, ~narrow, zero, lh.v.el, R(3), op, FALSE)
        ELSE IF lhitem = STACK_INT64ARRAY THEN
          IntLoop(s2, rh.v.dims, TRUE, zero, lh.v.el, R(4), op, i64punned)
        ELSE
          IntLoop(s2, rh.v.dims, TRUE, zero,
                  [n \in 1..count |-> Conv(cvl, lh.v.el[n])], R(5), op, FALSE)
      ELSE want_number(s1)

NoConv == <<TRUE, TRUE, TRUE, TRUE, TRUE>>

eval_iaintdiv(s) == ArrayRight(s, OP_INTDIV, TRUE, NoConv, TRUE, TRUE)

eval_i64aintdiv(s) == ArrayRight(s, OP_INTDIV, FALSE, NoConv, TRUE, FALSE)

eval_faintdiv(s) ==
  ArrayRight(s, OP_INTDIV, TRUE, <<FALSE, TRUE, FALSE, FALSE, TRUE>>, FALSE, FALSE)

eval_iamod(s) == ArrayRight(s, OP_MOD, TRUE, NoConv, TRUE, FALSE)

eval_i64amod(s) == ArrayRight(s, OP_MOD, FALSE, NoConv, TRUE, FALSE)

eval_famod(s) ==
  ArrayRight(s, OP_MOD, TRUE, <<FALSE, TRUE, FALSE, TRUE, TRUE>>, TRUE, FALSE)

(***************************************************************************)
(* Multiplication                                                          *)
(***************************************************************************)
\* <array> * <integer value>: the product is formed in floating point and
\* range-checked against 'max' before it is converted with TOINT
MulArray(s2, lh, rhint, tag, max) ==
  LET prod == [n \in 1..Len(lh.v.el) |-> lh.v.el[n] * rhint]
  IN  IF \E n \in 1..Len(prod) : Abs(prod[n]) > max THEN {Fail(s2, "ERR_RANGE")}
      ELSE IF \E n \in 1..Len(prod) : ~InInt32(prod[n]) THEN Undefined(s2, "badconv")
      ELSE {Ok(Push(s2, ArrE(tag, lh.v.dims, prod)))}

\* The part of eval_ivmul and eval_iv64mul after the scalar cases.  The
\* condition of the first 'else if' contains the constant STACK_INT64ARRAY as
\* an operand of ||, so it holds for every left-hand operand that reaches it,
\* and pop_array() is called whatever the entry on top is
MulArrayCases(s1, rhint) ==
  LET lhitem == GET_TOPITEM(s1)
      lh == Top(s1)
      s2 == Pop(s1)
  IN  IF lhitem = STACK_INTARRAY \/ STACK_INT64ARRAY # 0 \/ lhitem = STACK_FLOATARRAY THEN
        IF lhitem = STACK_INTARRAY THEN MulArray(s2, lh, rhint, STACK_IATEMP, MAXINTVAL)
        ELSE IF lhitem = STACK_INT64ARRAY THEN MulArray(s2, lh, rhint, STACK_I64ATEMP, MAXINT64VAL)
        ELSE IF lhitem = STACK_FLOATARRAY THEN
          {Ok(Push(s2, FATEMP(lh.v.dims, [n \in 1..Len(lh.v.el) |-> FMul(lh.v.el[n], TOFLOAT(rhint))])))}
        ELSE Undefined(s2, "badpop")
      ELSE IF lhitem = STACK_FATEMP THEN
        {Ok(Push(s2, FATEMP(lh.v.dims, [n \in 1..Len(lh.v.el) |-> FMul(lh.v.el[n], TOFLOAT(rhint))])))}
      ELSE want_number(s1)

\* The result pushed for the three products lhint32, lhint64 and lhfloat
MulResult(s2, lhint32, lhint64, lhfloat) ==
  IF lhint64 = lhint32 THEN push_int(s2, lhint32)
  ELSE IF Abs(Trunc(lhfloat)) >= MAXINT64VAL THEN push_float(s2, lhfloat)
  ELSE push_int64(s2, lhint64)

eval_ivmul(s) ==
  LET rhint32 == Top(s).v
      s1 == Pop(s)
      lhitem == GET_TOPITEM(s1)
      lh == Top(s1)
      s2 == Pop(s1)
  IN  IF lhitem = STACK_INT THEN
        LET exact == lh.v * rhint32
            lhint64 == ToInt64(exact)
            lhfloat == TOFLOAT(exact)
        IN  IF InInt32(exact) THEN {Ok(MulResult(s2, exact, lhint64, lhfloat))}
            \* 'lhint32 *= rhint32' overflowed: the product is wrapped, or the
            \* comparison is folded on the assumption that it did not overflow
            ELSE {Done(MulResult(s2, ToInt32(exact), lhint64, lhfloat), "overflow"),
                  Done(push_int(s2, ToInt32(exact)), "overflow")}
      ELSE IF lhitem = STACK_FLOAT THEN
        {Ok(push_float(s2, FMul(lh.v, TOFLOAT(rhint32))))}
      ELSE MulArrayCases(s1, rhint32)

eval_iv64mul(s) ==
  LET rhint64 == Top(s).v
      s1 == Pop(s)
      lhitem == GET_TOPITEM(s1)
      lh == Top(s1)
      s2 == Pop(s1)
  IN  IF lhitem = STACK_INT THEN
        \* pop_int64() applied to the int32 entry
        Undefined(s2, "badpop")
      ELSE IF lhitem = STACK_FLOAT THEN
        {Ok(push_float(s2, FMul(lh.v, TOFLOAT(rhint64))))}
      ELSE MulArrayCases(s1, rhint64)

(***************************************************************************)
(* Matrix multiplication                                                   *)
(***************************************************************************)
\* 'sum += x * y' over the terms pr[1..k] in an int32 accumulator
RECURSIVE Acc(_, _)
Acc(pr, k) == IF k = 0 THEN 0 ELSE ToInt32(Acc(pr, k - 1) + ToInt32(pr[k]))
AccOverflow(pr) ==
  \E k \in 1..Len(pr) : ~InInt32(pr[k]) \/ ~InInt32(Acc(pr, k - 1) + pr[k])

\* dimsize[ROW] and dimsize[COLUMN]; the second is not set for a vector
DimRow(a) == a.dims[1]
DimCol(a) == IF Len(a.dims) > 1 THEN a.dims[2] ELSE 0

\* check_arraytype: the error it raises and the dimensions of the result
check_arraytype(lharray, rharray) ==
  LET lhrows == DimRow(lharray)
      lhcols == DimCol(lharray)
      rhrows == DimRow(rharray)
      rhcols == DimCol(rharray)
  IN  IF Len(lharray.dims) > 2 \/ Len(rharray.dims) > 2
      THEN [err |-> "ERR_MATARRAY", dims |-> <<>>]
      ELSE IF Len(lharray.dims) = 1 THEN
        IF lhrows # rhrows THEN [err |-> "ERR_MATARRAY", dims |-> <<>>]
        ELSE IF Len(rharray.dims) = 1 THEN [err |-> "ERR_NONE", dims |-> <<1>>]
        ELSE [err |-> "ERR_NONE", dims |-> <<rhcols>>]
      ELSE IF Len(rharray.dims) = 1 THEN
        IF rhrows # lhcols THEN [err |-> "ERR_MATARRAY", dims |-> <<>>]
        ELSE [err |-> "ERR_NONE", dims |-> <<rhrows>>]
      ELSE
        IF lhcols # rhrows THEN [err |-> "ERR_MATARRAY", dims |-> <<>>]
        ELSE [err |-> "ERR_NONE", dims |-> <<lhrows, rhcols>>]

\* MatTerms with the row offset of the left-hand matrix dropped
MatTerms_NoRowOffset(lharray, rharray, result, resindex) ==
  LET lhbase(i) == lharray.el[i + 1]
      rhbase(i) == rharray.el[i + 1]
      rhrowsize == IF Len(rharray.dims) # 1 THEN DimCol(rharray) ELSE 0
  IN  IF Len(lharray.dims) = 1 THEN
        [c \in 1..DimRow(lharray) |-> lhbase(c - 1) * rhbase((c - 1) * rhrowsize + resindex)]
      ELSE IF Len(rharray.dims) = 1 THEN
        [c \in 1..DimRow(rharray) |-> lhbase(c - 1) * rhbase(c - 1)]
      ELSE
        LET col == resindex % result[2]
        IN  [k \in 1..DimCol(lharray) |-> lhbase(k - 1) * rhbase(rhrowsize * (k - 1) + col)]

\* The terms summed for element 'resindex' (0-based) of the result
MatTerms(lharray, rharray, result, resindex) ==
  LET lhbase(i) == lharray.el[i + 1]
      rhbase(i) == rharray.el[i + 1]
      lhrowsize == IF Len(lharray.dims) # 1 THEN DimCol(lharray) ELSE 0
      rhrowsize == IF Len(rharray.dims) # 1 THEN DimCol(rharray) ELSE 0
  IN  IF Len(lharray.dims) = 1 THEN
        [c \in 1..DimRow(lharray) |-> lhbase(c - 1) * rhbase((c - 1) * rhrowsize + resindex)]
      ELSE IF Len(rharray.dims) = 1 THEN
        [c \in 1..DimRow(rharray) |-> lhbase(c - 1) * rhbase(c - 1)]
      ELSE
        LET row == resindex \div result[2]
            col == resindex % result[2]
        IN  [k \in 1..DimCol(lharray) |->
               lhbase(lhrowsize * row + (k - 1)) * rhbase(rhrowsize * (k - 1) + col)]

RECURSIVE Product(_)
Product(dims) == IF dims = <<>> THEN 1 ELSE dims[1] * Product(Tail(dims))

eval_immul(s) ==
  LET rharray == Top(s).v
      s1 == Pop(s)
      lhitem == GET_TOPITEM(s1)
      lharray == Top(s1).v
      s2 == Pop(s1)
      result == check_arraytype(lharray, rharray)
      size == Product(result.dims)
      terms(i) == MatTerms(lharray, rharray, result.dims, i - 1)
  IN  IF lhitem # STACK_INTARRAY THEN {Fail(s1, "ERR_INTARRAY")}
      ELSE IF result.err # "ERR_NONE" THEN {Fail(s2, result.err)}
      ELSE {Done(Push(s2, IATEMP(result.dims,
                              [i \in 1..size |-> Acc(terms(i), Len(terms(i)))])),
                 OvTag(\A i \in 1..size : ~AccOverflow(terms(i))))}

(***************************************************************************)
(* The dispatch matrix: row = operator, column = type of the right-hand    *)
(* operand (the entry on top of the stack)                                 *)
(***************************************************************************)
opfunctions ==
  <<
    \* Dummy
    <<"eval_badcall", "eval_badcall", "eval_badcall", "eval_badcall", "eval_badcall",
      "eval_badcall", "eval_badcall", "eval_badcall", "eval_badcall", "eval_badcall",
      "eval_badcall", "eval_badcall", "eval_badcall", "eval_badcall", "eval_badcall">>,
    \* Addition
    <<"eval_badcall", "eval_badcall", "eval_ivplus", "eval_iv64plus", "eval_fvplus",
      "eval_svplus", "eval_svplus", "eval_iaplus", "eval_iaplus", "eval_i64aplus",
      "eval_i64aplus", "eval_faplus", "eval_faplus", "eval_saplus", "eval_saplus">>,
    \* Subtraction
    <<"eval_badcall", "eval_badcall", "eval_ivminus", "eval_iv64minus", "eval_fvminus",
      "want_number", "want_number", "eval_iaminus", "eval_iaminus", "eval_i64aminus",
      "eval_i64aminus", "eval_faminus", "eval_faminus", "want_number", "want_number">>,
    \* Multiplication
    <<"eval_badcall", "eval_badcall", "eval_ivmul", "eval_iv64mul", "eval_fvmul",
      "want_number", "want_number", "eval_iamul", "eval_iamul", "eval_i64amul",
      "eval_i64amul", "eval_famul", "eval_famul", "want_number", "want_number">>,
    \* Matrix multiplication
    <<"want_array", "eval_badcall", "want_array", "want_array", "want_array",
      "want_array", "want_array", "eval_immul", "want_array", "want_array",
      "want_array", "eval_fmmul", "want_array", "want_array", "want_array">>,
    \* Division
    <<"eval_badcall", "eval_badcall", "eval_ivdiv", "eval_iv64div", "eval_fvdiv",
      "want_number", "want_number", "eval_iadiv", "eval_iadiv", "eval_i64adiv",
      "eval_i64adiv", "eval_fadiv", "eval_fadiv", "want_number", "want_number">>,
    \* Integer division
    <<"eval_badcall", "eval_badcall", "eval_ivintdiv", "eval_iv64intdiv", "eval_fvintdiv",
      "want_number", "want_number", "eval_iaintdiv", "eval_iaintdiv", "eval_i64aintdiv",
      "eval_i64aintdiv", "eval_faintdiv", "eval_faintdiv", "want_number", "want_number">>,
    \* Integer remainder
    <<"eval_badcall", "eval_badcall", "eval_ivmod", "eval_iv64mod", "eval_fvmod",
      "want_number", "want_number", "eval_iamod", "eval_iamod", "eval_i64amod",
      "eval_i64amod", "eval_famod", "eval_famod", "want_number", "want_number">>,
    \* Raise
    <<"eval_badcall", "eval_badcall", "eval_vpow", "eval_vpow", "eval_vpow",
      "want_number", "want_number", "want_number", "want_number", "want_number",
      "want_number", "want_number", "want_number", "want_number", "want_number">>,
    \* Logical left shift
    <<"eval_badcall", "eval_badcall", "eval_vlsl", "eval_vlsl", "eval_vlsl",
      "want_number", "want_number", "want_number", "want_number", "want_number",
      "want_number", "want_number", "want_number", "want_number", "want_number">>,
    \* Logical right shift
    <<"eval_badcall", "eval_badcall", "eval_vlsr", "eval_vlsr", "eval_vlsr",
      "want_number", "want_number", "want_number", "want_number", "want_number",
      "want_number", "want_number", "want_number", "want_number", "want_number">>,
    \* Arithmetic right shift
    <<"eval_badcall", "eval_badcall", "eval_vasr", "eval_vasr", "eval_vasr",
      "want_number", "want_number", "want_number", "want_number", "want_number",
      "want_number", "want_number", "want_number", "want_number", "want_number">>,
    \* Equals
    <<"eval_badcall", "eval_badcall", "eval_iveq", "eval_iv64eq", "eval_fveq",
      "eval_sveq", "eval_sveq", "want_number", "want_number", "want_number",
      "want_number", "want_number", "want_number", "want_number", "want_number">>,
    \* Not equals
    <<"eval_badcall", "eval_badcall", "eval_ivne", "eval_iv64ne", "eval_fvne",
      "eval_svne", "eval_svne", "want_number", "want_number", "want_number",
      "want_number", "want_number", "want_number", "want_number", "want_number">>,
    \* Greater than
    <<"eval_badcall", "eval_badcall", "eval_ivgt", "eval_iv64gt", "eval_fvgt",
      "eval_svgt", "eval_svgt", "want_number", "want_number", "want_number",
      "want_number", "want_number", "want_number", "want_number", "want_number">>,
    \* Less than
    <<"eval_badcall", "eval_badcall", "eval_ivlt", "eval_iv64lt", "eval_fvlt",
      "eval_svlt", "eval_svlt", "want_number", "want_number", "want_number",
      "want_number", "want_number", "want_number", "want_number", "want_number">>,
    \* Greater than or equal to
    <<"eval_badcall", "eval_badcall", "eval_ivge", "eval_iv64ge", "eval_fvge",
      "eval_svge", "eval_svge", "want_number", "want_number", "want_number",
      "want_number", "want_number", "want_number", "want_number", "want_number">>,
    \* Less than or equal to
    <<"eval_badcall", "eval_badcall", "eval_ivle", "eval_iv64le", "eval_fvle",
      "eval_svle", "eval_svle", "want_number", "want_number", "want_number",
      "want_number", "want_number", "want_number", "want_number", "want_number">>,
    \* Logical and
    <<"eval_badcall", "eval_badcall", "eval_ivand", "eval_iv64and", "eval_fvand",
      "want_number", "want_number", "want_number", "want_number", "want_number",
      "want_number", "want_number", "want_number", "want_number", "want_number">>,
    \* Logical or
    <<"eval_badcall", "eval_badcall", "eval_ivor", "eval_iv64or", "eval_fvor",
      "want_number", "want_number", "want_number", "want_number", "want_number",
      "want_number", "want_number", "want_number", "want_number", "want_number">>,
    \* Logical exclusive or
    <<"eval_badcall", "eval_badcall", "eval_iveor", "eval_iv64eor", "eval_fveor",
      "want_number", "want_number", "want_number", "want_number", "want_number",
      "want_number", "want_number", "want_number", "want_number", "want_number">>
  >>

\* The operator implementations translated so far; an operator whose
\* implementation is not among them is not applied by ApplyOperator
Call(f, s) ==
  CASE f = "eval_badcall" -> eval_badcall(s)
    [] f = "want_number" -> want_number(s)
    [] f = "want_string" -> want_string(s)
    [] f = "want_array" -> want_array(s)
    [] f = "eval_ivplus" -> eval_ivplus(s)
    [] f = "eval_ivminus" -> eval_ivminus(s)
    [] f = "eval_iaplus" -> eval_iaplus(s)
    [] f = "eval_ivmul" -> eval_ivmul(s)
    [] f = "eval_iv64mul" -> eval_iv64mul(s)
    [] f = "eval_immul" -> eval_immul(s)
    [] f = "eval_ivdiv" -> eval_ivdiv(s)
    [] f = "eval_iv64div" -> eval_iv64div(s)
    [] f = "eval_fvdiv" -> eval_fvdiv(s)
    [] f = "eval_iadiv" -> eval_iadiv(s)
    [] f = "eval_i64adiv" -> eval_i64adiv(s)
    [] f = "eval_fadiv" -> eval_fadiv(s)
    [] f = "eval_ivintdiv" -> eval_ivintdiv(s)
    [] f = "eval_iv64intdiv" -> eval_iv64intdiv(s)
    [] f = "eval_fvintdiv" -> eval_fvintdiv(s)
    [] f = "eval_iaintdiv" -> eval_iaintdiv(s)
    [] f = "eval_i64aintdiv" -> eval_i64aintdiv(s)
    [] f = "eval_faintdiv" -> eval_faintdiv(s)
    [] f = "eval_ivmod" -> eval_ivmod(s)
    [] f = "eval_iv64mod" -> eval_iv64mod(s)
    [] f = "eval_fvmod" -> eval_fvmod(s)
    [] f = "eval_iamod" -> eval_iamod(s)
    [] f = "eval_i64amod" -> eval_i64amod(s)
    [] f = "eval_famod" -> eval_famod(s)
    [] OTHER -> {}

(***************************************************************************)
(* The operands the factor evaluators leave on the stack                   *)
(***************************************************************************)
F12 == <<1, 2>>
F32 == <<0 - 3, 2>>

IntValues == {MININTVAL, 0 - 1, 0, 1, 2, 3, MAXINTVAL}
Int64Values == {MININT64VAL, 0 - 2^IntBits, MAXINTVAL + 1, 2^IntBits, MAXINT64VAL}
FloatValues == {FZero, F12, F32, TOFLOAT(2), TOFLOAT(MAXINTVAL)}

\* Arrays that alias a variable
Arrays ==
  {ArrE(STACK_INTARRAY, <<2>>, <<1, 2>>),
   ArrE(STACK_INTARRAY, <<2>>, <<3, 0>>),
   ArrE(STACK_INTARRAY, <<2>>, <<MAXINTVAL, MININTVAL>>),
   ArrE(STACK_INTARRAY, <<3>>, <<1, 0 - 1, 2>>),
   ArrE(STACK_INTARRAY, <<2, 2>>, <<1, 2, 3, MAXINTVAL>>),
   ArrE(STACK_INTARRAY, <<1, 2>>, <<2, 3>>),
   ArrE(STACK_INTARRAY, <<2, 1>>, <<0 - 1, 2>>),
   ArrE(STACK_INTARRAY, <<2, 3>>, <<1, 0, 2, 0, 1, 3>>),
   ArrE(STACK_INTARRAY, <<4, 2>>, <<1, 1, 1, 1, 1, 1, 1, 1>>),
   ArrE(STACK_INTARRAY, <<1, 1, 2>>, <<1, 2>>),
   ArrE(STACK_INT64ARRAY, <<2>>, <<2^IntBits, 1>>),
   ArrE(STACK_INT64ARRAY, <<2>>, <<0, MININT64VAL>>),
   ArrE(STACK_FLOATARRAY, <<2>>, <<F12, TOFLOAT(2)>>),
   ArrE(STACK_FLOATARRAY, <<2>>, <<TOFLOAT(3), FZero>>),
   ArrE(STACK_FLOATARRAY, <<3>>, <<F32, F12, TOFLOAT(1)>>)}

\* Temporaries left by a bracketed sub-expression
Temporaries ==
  {IATEMP(<<2>>, <<1, 2>>), I64ATEMP(<<2>>, <<2^IntBits, 1>>),
   FATEMP(<<2>>, <<F12, TOFLOAT(2)>>), FATEMP(<<3>>, <<F32, F12, TOFLOAT(1)>>),
   [t |-> STACK_STRTEMP, v |-> "b"]}

Values ==
  {IntE(x) : x \in IntValues} \cup {Int64E(x) : x \in Int64Values}
    \cup {FloatE(x) : x \in FloatValues} \cup {[t |-> STACK_STRING, v |-> "a"]}
    \cup Arrays

Operators == {OP_ADD, OP_SUB, OP_MUL, OP_MATMUL, OP_DIV, OP_INTDIV, OP_MOD}

NoEntry == [t |-> STACK_UNKNOWN, v |-> 0]

(***************************************************************************)
(* One application of a dyadic operator: two factors are evaluated, then   *)
(* the operator is dispatched on the type of the right-hand operand        *)
(***************************************************************************)
Init ==
  /\ stack = <<>>
  /\ err = "ERR_NONE"
  /\ ub = "none"
  /\ legacyintmaths \in BOOLEAN
  /\ last = [op |-> OP_NOP, fn |-> "", lh |-> NoEntry, rh |-> NoEntry]
  /\ pc = "operands"
  /\ current = 1
  /\ tokens = <<>>
  /\ opstack = <<>>
  /\ opstop = 0
  /\ lastop = 0
  /\ thisop = 0
  /\ applied = <<>>
  /\ formals = <<>>
  /\ actuals = <<>>
  /\ parmno = 0
  /\ pending = <<>>
  /\ parmvals = <<>>
  /\ entry = [stack |-> <<>>, opstack |-> <<>>, opstop |-> 0]
  /\ errarg = <<>>
  /\ ref = <<>>
  /\ USE_SDL = FALSE
  /\ fnframe = <<>>

\* The left-hand operand may be the temporary result of a sub-expression
PushFactor ==
  /\ pc = "operands"
  /\ Len(stack) < 2
  /\ \E e \in (IF Len(stack) = 0 THEN Values \cup Temporaries ELSE Values) :
       stack' = Push(stack, e)
  /\ UNCHANGED <<err, ub, legacyintmaths, last, current, tokens, opstack, opstop,
                 lastop, thisop, pc, applied, formals, actuals, parmno, pending,
                 parmvals, entry, errarg, ref, USE_SDL, fnframe>>

\* (*opfunctions[thisop][GET_TOPITEM])()
ApplyOperator ==
  /\ pc = "operands"
  /\ Len(stack) = 2
  /\ \E op \in Operators :
       LET f == opfunctions[op + 1][GET_TOPITEM(stack) + 1]
       IN  \E o \in Call(f, stack) :
             /\ stack' = o.stack
             /\ err' = o.err
             /\ ub' = o.ub
             /\ last' = [op |-> op, fn |-> f, lh |-> stack[1], rh |-> stack[2]]
  /\ pc' = "applied"
  /\ UNCHANGED <<legacyintmaths, current, tokens, opstack, opstop, lastop, thisop,
                 applied, formals, actuals, parmno, pending, parmvals, entry, errarg, ref, USE_SDL, fnframe>>

Next == PushFactor \/ ApplyOperator

Spec == Init /\ [][Next]_vars

(***************************************************************************)
(* Properties of the operator implementations                              *)
(***************************************************************************)
Applied(op) == pc = "applied" /\ last.op = op
IsIntArray(t) == t \in {STACK_INTARRAY, STACK_IATEMP, STACK_INT64ARRAY, STACK_I64ATEMP}
IsFloatArray(t) == t \in {STACK_FLOATARRAY, STACK_FATEMP}
IsNumArray(t) == IsIntArray(t) \/ IsFloatArray(t)
IsInteger(t) == t \in {STACK_INT, STACK_INT64}

\* The left-hand operand is a number, or a numeric array conformable with the
\* right-hand operand when that is an array too
NumericLeft ==
  \/ IsNumber(last.lh.t)
  \/ /\ IsNumArray(last.lh.t)
     /\ IsNumArray(last.rh.t) => last.lh.v.dims = last.rh.v.dims

\* The operand is exactly zero, or an array with a zero element
HasZero(e) ==
  IF IsInteger(e.t) THEN e.v = 0
  ELSE IF e.t = STACK_FLOAT THEN e.v = FZero
  ELSE IF IsIntArray(e.t) THEN \E n \in 1..Len(e.v.el) : e.v.el[n] = 0
  ELSE IF IsFloatArray(e.t) THEN \E n \in 1..Len(e.v.el) : e.v.el[n] = FZero
  ELSE FALSE

\* The operand, truncated toward zero, is zero or has a zero element
TruncatesToZero(e) ==
  IF IsInteger(e.t) THEN e.v = 0
  ELSE IF e.t = STACK_FLOAT THEN Trunc(e.v) = 0
  ELSE IF IsIntArray(e.t) THEN \E n \in 1..Len(e.v.el) : e.v.el[n] = 0
  ELSE IF IsFloatArray(e.t) THEN \E n \in 1..Len(e.v.el) : Trunc(e.v.el[n]) = 0
  ELSE FALSE

ExactResult == IF last.op = OP_ADD THEN last.lh.v + last.rh.v
               ELSE IF last.op = OP_SUB THEN last.lh.v - last.rh.v
               ELSE last.lh.v * last.rh.v

\* C1: with legacy integer maths off, int32 + int32 and int32 - int32 leave
\* an int64 holding the exact result when it is outside the int32 range, and
\* an int32 holding it when it fits.
C1_ExactPromotion ==
  (/\ Applied(OP_ADD) \/ Applied(OP_SUB)
   /\ ~legacyintmaths
   /\ last.lh.t = STACK_INT /\ last.rh.t = STACK_INT)
  => /\ err = "ERR_NONE"
     /\ stack = <<IF InInt32(ExactResult) THEN IntE(ExactResult) ELSE Int64E(ExactResult)>>

C1_Wrapped ==
  /\ Applied(OP_ADD)
  /\ ~legacyintmaths
  /\ last.lh = IntE(MAXINTVAL) /\ last.rh = IntE(1)
  /\ err = "ERR_NONE"
  /\ stack = <<IntE(MININTVAL)>>

\* C4: the sum of two conformable int32 arrays has their shape and holds in
\* every element the exact sum of the corresponding elements, also when that
\* sum does not fit in 32 bits.
C4_ElementPromotion ==
  (/\ Applied(OP_ADD)
   /\ last.lh.t = STACK_INTARRAY /\ last.rh.t = STACK_INTARRAY
   /\ last.lh.v.dims = last.rh.v.dims)
  => /\ err = "ERR_NONE"
     /\ Len(stack) = 1
     /\ IsIntArray(Top(stack).t)
     /\ Top(stack).v.dims = last.lh.v.dims
     /\ \A n \in 1..Len(last.lh.v.el) :
          Top(stack).v.el[n] = last.lh.v.el[n] + last.rh.v.el[n]

C4_ElementWrapped ==
  /\ Applied(OP_ADD)
  /\ last.lh.t = STACK_INTARRAY /\ last.rh.t = STACK_INTARRAY
  /\ err = "ERR_NONE"
  /\ Len(stack) = 1
  /\ Top(stack).t = STACK_IATEMP
  /\ \E n \in 1..Len(last.lh.v.el) :
       /\ ~InInt32(last.lh.v.el[n] + last.rh.v.el[n])
       /\ Top(stack).v.el[n] = ToInt32(last.lh.v.el[n] + last.rh.v.el[n])

\* C7: '/' with a right-hand operand that is zero, or an array with a zero
\* element, raises the divide-by-zero error for every numeric or conformable
\* numeric array left-hand operand, and delivers no result.
C7_DivideByZero ==
  (Applied(OP_DIV) /\ HasZero(last.rh) /\ NumericLeft)
  => /\ err = "ERR_DIVZERO"
     /\ stack \in {<<>>, <<last.lh>>}

C7_TemporaryLeft ==
  /\ Applied(OP_DIV)
  /\ last.lh.t = STACK_IATEMP
  /\ last.rh.t = STACK_INTARRAY /\ HasZero(last.rh)
  /\ last.lh.v.dims = last.rh.v.dims
  /\ err = "ERR_BADARITH"

\* C8: DIV and MOD raise the divide-by-zero error whenever the right-hand
\* operand, or one of its elements, truncates to zero, and never execute an
\* integer division or remainder by zero.
C8_NoZeroDivisor ==
  (/\ Applied(OP_INTDIV) \/ Applied(OP_MOD)
   /\ IsNumber(last.rh.t) \/ IsNumArray(last.rh.t))
  => /\ ub # "divzero"
     /\ (TruncatesToZero(last.rh) /\ NumericLeft) => err = "ERR_DIVZERO"

C8_DividedByZero ==
  /\ Applied(OP_INTDIV)
  /\ last.lh = IntE(3)
  /\ last.rh = ArrE(STACK_FLOATARRAY, <<2>>, <<F12, TOFLOAT(2)>>)
  /\ ub = "divzero"

\* C9: int32/int64 * int32/int64 yields the exact product as an int32 when
\* it fits in 32 bits, as an int64 when it fits in 64 bits, and a float only
\* beyond that, whatever the legacy integer maths mode.
C9_ExactProduct ==
  (Applied(OP_MUL) /\ IsInteger(last.lh.t) /\ IsInteger(last.rh.t))
  => /\ err = "ERR_NONE"
     /\ stack = <<IF InInt32(ExactResult) THEN IntE(ExactResult)
                  ELSE IF InInt64(ExactResult) THEN Int64E(ExactResult)
                  ELSE FloatE(TOFLOAT(ExactResult))>>

C9_Int64Left ==
  /\ Applied(OP_MUL)
  /\ last.lh = Int64E(2^IntBits) /\ last.rh = IntE(2)
  /\ ub = "badpop"

\* Reference matrix product: the terms of element (i, j) of L x R, 1-based
RefTerms(L, R, i, j) ==
  [k \in 1..L.dims[2] |-> L.el[(i - 1) * L.dims[2] + k] * R.el[(k - 1) * R.dims[2] + j]]
RECURSIVE SumTo(_, _)
SumTo(f, k) == IF k = 0 THEN 0 ELSE SumTo(f, k - 1) + f[k]
\* Every product and every running sum of the element fits in an int32
TermsInRange(f) == \A k \in 1..Len(f) : InInt32(f[k]) /\ InInt32(SumTo(f, k))

IntMatrices ==
  /\ Applied(OP_MATMUL)
  /\ last.lh.t = STACK_INTARRAY /\ last.rh.t = STACK_INTARRAY
  /\ Len(last.lh.v.dims) = 2 /\ Len(last.rh.v.dims) = 2

\* The result on the stack is the r x c array of the exact sums of products
IsMatrixProduct(L, R) ==
  /\ err = "ERR_NONE"
  /\ Len(stack) = 1
  /\ Top(stack).t = STACK_IATEMP
  /\ Top(stack).v.dims = <<L.dims[1], R.dims[2]>>
  /\ \A i \in 1..L.dims[1] : \A j \in 1..R.dims[2] :
       Top(stack).v.el[(i - 1) * R.dims[2] + j]
         = SumTo(RefTerms(L, R, i, j), L.dims[2])

\* C10 (as stated): MATMUL of an r x n by an m x c int32 array raises the
\* matrix shape error when n # m, and otherwise yields the r x c array whose
\* element (i, j) is the sum over k of L[i,k] * R[k,j].
C10_MatrixProduct ==
  IntMatrices =>
    IF last.lh.v.dims[2] # last.rh.v.dims[1] THEN err = "ERR_MATARRAY"
    ELSE IsMatrixProduct(last.lh.v, last.rh.v)

\* C10 (amended): the same, provided every product and every running sum of
\* every element fits in a 32-bit integer; the accumulator is an int32.
C10_MatrixProductInRange ==
  IntMatrices =>
    IF last.lh.v.dims[2] # last.rh.v.dims[1] THEN err = "ERR_MATARRAY"
    ELSE (\A i \in 1..last.lh.v.dims[1] : \A j \in 1..last.rh.v.dims[2] :
            TermsInRange(RefTerms(last.lh.v, last.rh.v, i, j)))
         => IsMatrixProduct(last.lh.v, last.rh.v)

\* a 2 x 1 array times a 1 x 2 array gave the 2 x 2 outer product
C10_OuterProduct ==
  /\ IntMatrices
  /\ last.lh.v = [dims |-> <<2, 1>>, el |-> <<0 - 1, 2>>]
  /\ last.rh.v = [dims |-> <<1, 2>>, el |-> <<2, 3>>]
  /\ err = "ERR_NONE"
  /\ stack = <<IATEMP(<<2, 2>>, <<0 - 2, 0 - 3, 4, 6>>)>>

(***************************************************************************)
(* expression(): the operator-precedence loop                              *)
(*                                                                         *)
(* In this specification the Basic stack holds symbolic values: the value  *)
(* of the factor at token position k is [f |-> k], and the value an        *)
(* operator function leaves in place of its two operands lh and rh is      *)
(* [op |-> operator, lh |-> lh, rh |-> rh].  The type errors the operator  *)
(* functions raise are the subject of the specification Spec above.        *)
(***************************************************************************)
\* Bounds of the expressions explored
MaxOperators == 4
\* Size of the operator stack (its value is set in a header outside this file)
OPSTACKSIZE == 5

\* The table below with the three shifts in the additive class
optable_ShiftsAdditive ==
  [t \in 0..255 |->
     CASE t = 42 -> MULPRIO + OP_MUL
       [] t = 43 -> ADDPRIO + OP_ADD
       [] t = 45 -> ADDPRIO + OP_SUB
       [] t = 46 -> MULPRIO + OP_MATMUL
       [] t = 47 -> MULPRIO + OP_DIV
       [] t = 60 -> COMPRIO + OP_LT
       [] t = 61 -> COMPRIO + OP_EQ
       [] t = 62 -> COMPRIO + OP_GT
       [] t = 94 -> POWPRIO + OP_POW
       [] t = 128 -> ANDPRIO + OP_AND
       [] t = 129 -> ADDPRIO + OP_ASR
       [] t = 130 -> MULPRIO + OP_INTDIV
       [] t = 131 -> ORPRIO + OP_EOR
       [] t = 132 -> COMPRIO + OP_GE
       [] t = 133 -> COMPRIO + OP_LE
       [] t = 134 -> ADDPRIO + OP_LSL
       [] t = 135 -> ADDPRIO + OP_LSR
       [] t = 137 -> MULPRIO + OP_MOD
       [] t = 138 -> COMPRIO + OP_NE
       [] t = 139 -> ORPRIO + OP_OR
       [] OTHER -> 0]

\* optable[token]: priority + operator of the token, 0 if it is no operator
optable ==
  [t \in 0..255 |->
     CASE t = 42 -> MULPRIO + OP_MUL
       [] t = 43 -> ADDPRIO + OP_ADD
       [] t = 45 -> ADDPRIO + OP_SUB
       [] t = 46 -> MULPRIO + OP_MATMUL
       [] t = 47 -> MULPRIO + OP_DIV
       [] t = 60 -> COMPRIO + OP_LT
       [] t = 61 -> COMPRIO + OP_EQ
       [] t = 62 -> COMPRIO + OP_GT
       [] t = 94 -> POWPRIO + OP_POW
       [] t = 128 -> ANDPRIO + OP_AND
       [] t = 129 -> COMPRIO + OP_ASR
       [] t = 130 -> MULPRIO + OP_INTDIV
       [] t = 131 -> ORPRIO + OP_EOR
       [] t = 132 -> COMPRIO + OP_GE
       [] t = 133 -> COMPRIO + OP_LE
       [] t = 134 -> COMPRIO + OP_LSL
       [] t = 135 -> COMPRIO + OP_LSR
       [] t = 137 -> MULPRIO + OP_MOD
       [] t = 138 -> COMPRIO + OP_NE
       [] t = 139 -> ORPRIO + OP_OR
       [] OTHER -> 0]

\* Tokens of the expressions explored: a one-token factor (a variable), the
\* token that ends the statement, and one operator token of every priority
\* ('^' '*' '+' '=' '<' LSL AND OR)
VarToken == 1
EndToken == 58
OperatorTokens == {94, 42, 43, 61, 60, 134, 128, 139}

\* <factor> { <operator> <factor> } <end of statement>
Expressions ==
  UNION {{[i \in 1..(2 * n + 2) |->
             IF i = 2 * n + 2 THEN EndToken
             ELSE IF i % 2 = 1 THEN VarToken ELSE ops[i \div 2]]
          : ops \in [1..n -> OperatorTokens]} : n \in 0..MaxOperators}

\* The operator stack as an array of OPSTACKSIZE+1 entries of which the
\* first Len(used) are in use
OpStackOf(used) ==
  [i \in 1..(OPSTACKSIZE + 1) |-> IF i <= Len(used) THEN used[i] ELSE 0]
\* Index of the last entry of the operator stack (basicvars.opstlimit)
opstlimit == OPSTACKSIZE + 1

\* expression() is entered either at the top level of a statement, with the
\* operator stack as init_expressions left it, or for a bracketed third
\* factor of an enclosing expression 'x + y * ( ... )', which has its mark
\* and its pending '+' on the operator stack and x and y on the Basic stack
EntryStates ==
  {[used |-> <<OPSTACKMARK>>, stack |-> <<>>],
   [used |-> <<OPSTACKMARK, OPSTACKMARK, ADDPRIO + OP_ADD>>,
    stack |-> <<[f |-> 0], [f |-> 0]>>]}

\* (*factor_table[*basicvars.current])() for a variable: pushes its value
\* and leaves basicvars.current after it
FactorValue(at) == [f |-> at]

\* (*opfunctions[lastop & OPERMASK][GET_TOPITEM])(): the operator function
\* replaces the two operands on top of the Basic stack by its result
ApplyOp(st, op) ==
  LET n == Len(st.stack)
      node == [op |-> op % (OPERMASK + 1), lh |-> st.stack[n - 1], rh |-> st.stack[n]]
  IN  [st EXCEPT !.stack = Append(SubSeq(st.stack, 1, n - 2), node),
                 !.applied = Append(st.applied, node)]

\* lastop = *basicvars.opstop; basicvars.opstop--;
PopOp(st, ostk) == [st EXCEPT !.lastop = ostk[st.opstop], !.opstop = st.opstop - 1]

\* The loop below without its test for a pending relational operator
RECURSIVE RelUnwind_NoStop(_, _, _)
RelUnwind_NoStop(st, ostk, this) ==
  IF PRIORITY(st.lastop) >= PRIORITY(this)
  THEN RelUnwind_NoStop(PopOp(ApplyOp(st, st.lastop), ostk), ostk, this)
  ELSE st

\* while (PRIORITY(lastop) >= PRIORITY(thisop) && PRIORITY(lastop) != COMPRIO) {...}
RECURSIVE RelUnwind(_, _, _)
RelUnwind(st, ostk, this) ==
  IF PRIORITY(st.lastop) >= PRIORITY(this) /\ PRIORITY(st.lastop) # COMPRIO
  THEN RelUnwind(PopOp(ApplyOp(st, st.lastop), ostk), ostk, this)
  ELSE st

\* The loop below executing the last operator only
Unwind_Once(st, ostk, this) == PopOp(ApplyOp(st, st.lastop), ostk)

\* do {...} while (PRIORITY(lastop) >= PRIORITY(thisop));
RECURSIVE Unwind(_, _, _)
Unwind(st, ostk, this) ==
  LET nx == PopOp(ApplyOp(st, st.lastop), ostk)
  IN  IF PRIORITY(nx.lastop) >= PRIORITY(this) THEN Unwind(nx, ostk, this) ELSE nx

\* The loop below stopping at the mark without taking it off the stack
RECURSIVE Drain_LeavesMark(_, _)
Drain_LeavesMark(st, ostk) ==
  IF st.lastop = OPSTACKMARK THEN st
  ELSE LET a == ApplyOp(st, st.lastop)
       IN  IF ostk[a.opstop] = OPSTACKMARK THEN [a EXCEPT !.lastop = OPSTACKMARK]
           ELSE Drain_LeavesMark(PopOp(a, ostk), ostk)

\* while (lastop != OPSTACKMARK) {...}
RECURSIVE Drain(_, _)
Drain(st, ostk) ==
  IF st.lastop # OPSTACKMARK THEN Drain(PopOp(ApplyOp(st, st.lastop), ostk), ostk) ELSE st

InitExpr ==
  /\ tokens \in Expressions
  /\ \E e \in EntryStates :
       /\ opstack = OpStackOf(e.used)
       /\ opstop = Len(e.used)
       /\ stack = e.stack
       /\ entry = [stack |-> e.stack, opstack |-> OpStackOf(e.used), opstop |-> Len(e.used)]
  /\ current = 1
  /\ lastop = 0
  /\ thisop = 0
  /\ pc = "start"
  /\ applied = <<>>
  /\ err = "ERR_NONE"
  /\ ub = "none"
  /\ legacyintmaths = FALSE
  /\ last = [op |-> OP_NOP, fn |-> "", lh |-> NoEntry, rh |-> NoEntry]
  /\ formals = <<>>
  /\ actuals = <<>>
  /\ parmno = 0
  /\ pending = <<>>
  /\ parmvals = <<>>
  /\ errarg = <<>>
  /\ ref = <<>>
  /\ USE_SDL = FALSE
  /\ fnframe = <<>>

\* Entry of expression(): the first factor, the quick ways out for '<value>'
\* and '<value> <op> <value>', and the mark pushed for anything longer
expression_entry ==
  /\ pc = "start"
  /\ LET first == optable[tokens[current + 1]]
         second == optable[tokens[current + 3]]
         one == Append(stack, FactorValue(current))
         two == Append(one, FactorValue(current + 2))
     IN  IF first = 0 THEN
           /\ stack' = one
           /\ current' = current + 1
           /\ lastop' = first
           /\ pc' = "done"
           /\ UNCHANGED <<thisop, applied, opstack, opstop, err>>
         ELSE IF second = 0 THEN
           /\ stack' = ApplyOp([stack |-> two, applied |-> applied], first).stack
           /\ applied' = ApplyOp([stack |-> two, applied |-> applied], first).applied
           /\ current' = current + 3
           /\ lastop' = first
           /\ thisop' = second
           /\ pc' = "done"
           /\ UNCHANGED <<opstack, opstop, err>>
         ELSE IF opstop = opstlimit THEN
           /\ stack' = two
           /\ current' = current + 3
           /\ lastop' = first
           /\ thisop' = second
           /\ err' = "ERR_OPSTACK"
           /\ pc' = "done"
           /\ UNCHANGED <<applied, opstack, opstop>>
         ELSE
           /\ stack' = two
           /\ current' = current + 3
           /\ lastop' = first
           /\ thisop' = second
           /\ opstop' = opstop + 1
           /\ opstack' = [opstack EXCEPT ![opstop + 1] = OPSTACKMARK]
           /\ pc' = "loop"
           /\ UNCHANGED <<applied, err>>
  /\ UNCHANGED <<ub, legacyintmaths, last, tokens, formals, actuals, parmno,
                 pending, parmvals, entry, errarg, ref, USE_SDL, fnframe>>

\* The end of one turn of the main loop: the last operator is stacked, this
\* operator becomes the last one and the next factor is fetched
NextOperand(st) ==
  /\ opstop' = st.opstop + 1
  /\ opstack' = [opstack EXCEPT ![st.opstop + 1] = st.lastop]
  /\ lastop' = thisop
  /\ stack' = Append(st.stack, FactorValue(current + 1))
  /\ applied' = st.applied
  /\ current' = current + 2
  /\ thisop' = optable[tokens[current + 2]]
  /\ pc' = IF optable[tokens[current + 2]] # 0 THEN "loop" ELSE "drain"
  /\ UNCHANGED err

\* The state the loops over the pending operators work on
Pending == [stack |-> stack, applied |-> applied, lastop |-> lastop, opstop |-> opstop]

\* One turn of the main loop with PRIORITY(thisop) > PRIORITY(lastop)
expression_shift ==
  /\ pc = "loop"
  /\ PRIORITY(thisop) > PRIORITY(lastop)
  /\ IF opstop = opstlimit THEN
       /\ err' = "ERR_OPSTACK"
       /\ pc' = "done"
       /\ UNCHANGED <<stack, applied, current, lastop, thisop, opstack, opstop>>
     ELSE NextOperand(Pending)
  /\ UNCHANGED <<ub, legacyintmaths, last, tokens, formals, actuals, parmno,
                 pending, parmvals, entry, errarg, ref, USE_SDL, fnframe>>

\* One turn of the main loop with PRIORITY(thisop) <= PRIORITY(lastop): the
\* pending operators of at least this priority are executed first
expression_reduce ==
  /\ pc = "loop"
  /\ PRIORITY(thisop) <= PRIORITY(lastop)
  /\ IF PRIORITY(thisop) = COMPRIO THEN
       LET st == RelUnwind(Pending, opstack, thisop)
       IN  IF PRIORITY(st.lastop) = COMPRIO THEN
             /\ stack' = st.stack
             /\ applied' = st.applied
             /\ lastop' = st.lastop
             /\ opstop' = st.opstop
             /\ pc' = "drain"
             /\ UNCHANGED <<current, thisop, opstack, err>>
           ELSE NextOperand(st)
     ELSE NextOperand(Unwind(Pending, opstack, thisop))
  /\ UNCHANGED <<ub, legacyintmaths, last, tokens, formals, actuals, parmno,
                 pending, parmvals, entry, errarg, ref, USE_SDL, fnframe>>

\* The operator stack is cleared down to the mark of this expression
expression_drain ==
  /\ pc = "drain"
  /\ LET st == Drain(Pending, opstack)
     IN  /\ stack' = st.stack
         /\ applied' = st.applied
         /\ lastop' = st.lastop
         /\ opstop' = st.opstop
  /\ pc' = "done"
  /\ UNCHANGED <<current, thisop, opstack, err, ub, legacyintmaths, last, tokens,
                 formals, actuals, parmno, pending, parmvals, entry, errarg, ref, USE_SDL, fnframe>>

\* factor(), called in place of expression() where the language asks for a
\* factor: the mark is stored at the operator-stack pointer, the factor is
\* evaluated, and the entry at the pointer is tested for the mark
factor ==
  /\ pc = "start"
  /\ opstack' = [opstack EXCEPT ![opstop] = OPSTACKMARK]
  /\ stack' = Append(stack, FactorValue(current))
  /\ current' = current + 1
  /\ err' = IF opstack'[opstop] # OPSTACKMARK THEN "ERR_BADEXPR" ELSE "ERR_NONE"
  /\ pc' = "factored"
  /\ UNCHANGED <<opstop, lastop, thisop, applied, ub, legacyintmaths, last, tokens, formals,
                 actuals, parmno, pending, parmvals, entry, errarg, ref, USE_SDL, fnframe>>

NextExpr ==
  \/ expression_entry
  \/ expression_shift
  \/ expression_reduce
  \/ expression_drain
  \/ factor

SpecExpr == InitExpr /\ [][NextExpr]_vars

(***************************************************************************)
(* Parameters of PROC and FN calls: push_parameters, push_singleparm and   *)
(* push_oneparm.  A formal parameter is named by its type, an actual       *)
(* argument by the entry its evaluation leaves on the Basic stack.  Return *)
(* parameters are not part of this specification.                          *)
(***************************************************************************)
\* Bounds of the calls explored, and the width of a byte of the memory image
MaxParms == 2
ByteBits == 2

\* Tokens that can follow an actual argument: ',' ')' and anything else
Comma == 44
RightBracket == 41

type_table ==
  <<
    \* Undefined variable type (0)
    <<"ERR_BROKEN", "ERR_BROKEN", "ERR_BROKEN", "ERR_BROKEN", "ERR_BROKEN", "ERR_BROKEN",
      "ERR_BROKEN", "ERR_BROKEN", "ERR_BROKEN", "ERR_BROKEN", "ERR_BROKEN", "ERR_BROKEN">>,
    \* Byte-sized integer
    <<"ERR_BROKEN", "ERR_BROKEN", "ERR_NONE", "ERR_NONE", "ERR_NONE", "ERR_PARMNUM",
      "ERR_PARMNUM", "ERR_PARMNUM", "ERR_PARMNUM", "ERR_PARMNUM", "ERR_PARMNUM", "ERR_PARMNUM">>,
    \* Word-sized integer
    <<"ERR_BROKEN", "ERR_BROKEN", "ERR_NONE", "ERR_NONE", "ERR_NONE", "ERR_PARMNUM",
      "ERR_PARMNUM", "ERR_PARMNUM", "ERR_PARMNUM", "ERR_PARMNUM", "ERR_PARMNUM", "ERR_PARMNUM">>,
    \* Floating point
    <<"ERR_BROKEN", "ERR_BROKEN", "ERR_NONE", "ERR_NONE", "ERR_NONE", "ERR_PARMNUM",
      "ERR_PARMNUM", "ERR_PARMNUM", "ERR_PARMNUM", "ERR_PARMNUM", "ERR_PARMNUM", "ERR_PARMNUM">>,
    \* 'string$' type string
    <<"ERR_BROKEN", "ERR_BROKEN", "ERR_PARMSTR", "ERR_PARMSTR", "ERR_NONE", "ERR_NONE",
      "ERR_NONE", "ERR_PARMSTR", "ERR_PARMSTR", "ERR_PARMSTR", "ERR_PARMSTR", "ERR_PARMSTR">>,
    \* '$string' type string
    <<"ERR_BROKEN", "ERR_BROKEN", "ERR_PARMSTR", "ERR_PARMSTR", "ERR_NONE", "ERR_NONE",
      "ERR_PARMSTR", "ERR_PARMSTR", "ERR_PARMSTR", "ERR_PARMSTR", "ERR_PARMSTR", "ERR_PARMSTR">>,
    \* 64-bit integer
    <<"ERR_BROKEN", "ERR_BROKEN", "ERR_NONE", "ERR_NONE", "ERR_NONE", "ERR_PARMNUM",
      "ERR_PARMNUM", "ERR_PARMNUM", "ERR_PARMNUM", "ERR_PARMNUM", "ERR_PARMNUM", "ERR_PARMNUM">>,
    \* Undefined variable type (7)
    <<"ERR_BROKEN", "ERR_BROKEN", "ERR_BROKEN", "ERR_BROKEN", "ERR_BROKEN", "ERR_BROKEN",
      "ERR_BROKEN", "ERR_BROKEN", "ERR_BROKEN", "ERR_BROKEN", "ERR_BROKEN", "ERR_BROKEN">>,
    \* Undefined array type (8)
    <<"ERR_BROKEN", "ERR_BROKEN", "ERR_BROKEN", "ERR_BROKEN", "ERR_BROKEN", "ERR_BROKEN",
      "ERR_BROKEN", "ERR_BROKEN", "ERR_BROKEN", "ERR_BROKEN", "ERR_BROKEN", "ERR_BROKEN">>,
    \* Byte-sized integer array (9)
    <<"ERR_BROKEN", "ERR_BROKEN", "ERR_BROKEN", "ERR_BROKEN", "ERR_BROKEN", "ERR_BROKEN",
      "ERR_BROKEN", "ERR_BROKEN", "ERR_BROKEN", "ERR_BROKEN", "ERR_BROKEN", "ERR_BROKEN">>,
    \* Word-sized integer array
    <<"ERR_BROKEN", "ERR_BROKEN", "ERR_PARMNUM", "ERR_PARMNUM", "ERR_PARMNUM", "ERR_PARMNUM",
      "ERR_NONE", "ERR_NONE", "ERR_PARMNUM", "ERR_PARMNUM", "ERR_PARMNUM", "ERR_PARMNUM">>,
    \* Floating point array
    <<"ERR_BROKEN", "ERR_BROKEN", "ERR_PARMNUM", "ERR_PARMNUM", "ERR_PARMNUM", "ERR_PARMNUM",
      "ERR_PARMNUM", "ERR_PARMNUM", "ERR_NONE", "ERR_NONE", "ERR_PARMNUM", "ERR_PARMNUM">>,
    \* 'string$' array
    <<"ERR_BROKEN", "ERR_BROKEN", "ERR_PARMSTR", "ERR_PARMSTR", "ERR_PARMSTR", "ERR_PARMSTR",
      "ERR_PARMSTR", "ERR_PARMSTR", "ERR_PARMSTR", "ERR_PARMSTR", "ERR_NONE", "ERR_NONE">>,
    \* Undefined array type (0x0d)
    <<"ERR_BROKEN", "ERR_BROKEN", "ERR_BROKEN", "ERR_BROKEN", "ERR_BROKEN", "ERR_BROKEN",
      "ERR_BROKEN", "ERR_BROKEN", "ERR_BROKEN", "ERR_BROKEN", "ERR_BROKEN", "ERR_BROKEN">>,
    \* Undefined array type (0x0e)
    <<"ERR_BROKEN", "ERR_BROKEN", "ERR_BROKEN", "ERR_BROKEN", "ERR_BROKEN", "ERR_BROKEN",
      "ERR_BROKEN", "ERR_BROKEN", "ERR_BROKEN", "ERR_BROKEN", "ERR_BROKEN", "ERR_BROKEN">>,
    \* Undefined array type (0x0f)
    <<"ERR_BROKEN", "ERR_BROKEN", "ERR_BROKEN", "ERR_BROKEN", "ERR_BROKEN", "ERR_BROKEN",
      "ERR_BROKEN", "ERR_BROKEN", "ERR_BROKEN", "ERR_BROKEN", "ERR_BROKEN", "ERR_BROKEN">>
  >>

\* fp->parameter.typeinfo & TYPECHECKMASK: the row of type_table, as the
\* comments of its rows name them
TypeRow(formal) ==
  CASE formal = "VAR_INTBYTEPTR" -> 1
    [] formal \in {"VAR_INTWORD", "VAR_INTWORDPTR"} -> 2
    [] formal \in {"VAR_FLOAT", "VAR_FLOATPTR"} -> 3
    [] formal = "VAR_STRINGDOL" -> 4
    [] formal = "VAR_DOLSTRPTR" -> 5
    [] formal = "VAR_INTLONG" -> 6
    [] formal = "VAR_INTARRAY" -> 10
    [] formal = "VAR_FLOATARRAY" -> 11
    [] formal = "VAR_STRARRAY" -> 12
    [] formal = "VAR_INT64ARRAY" -> 14

\* type_table[fp->parameter.typeinfo & TYPECHECKMASK][parmtype].  A row has
\* STACK_LOCARRAY+1 entries of which the initialiser gives the first twelve:
\* the others are zero, the number of ERR_NONE
TypeCheck(formal, parmtype) ==
  IF parmtype + 1 <= Len(type_table[TypeRow(formal) + 1])
  THEN type_table[TypeRow(formal) + 1][parmtype + 1]
  ELSE "ERR_NONE"

FormalTypes ==
  {"VAR_INTBYTEPTR", "VAR_INTWORD", "VAR_INTWORDPTR", "VAR_INTLONG", "VAR_FLOAT",
   "VAR_FLOATPTR", "VAR_STRINGDOL", "VAR_DOLSTRPTR", "VAR_INTARRAY",
   "VAR_INT64ARRAY", "VAR_FLOATARRAY", "VAR_STRARRAY"}
\* The formal types used in parameter lists of more than one parameter
CommonFormals == {"VAR_INTWORD", "VAR_FLOAT", "VAR_STRINGDOL", "VAR_INTARRAY"}

\* One actual argument of every type an expression can leave on the stack
ActualValues ==
  {IntE(5), Int64E(3), Int64E(2^IntBits), FloatE(<<3, 2>>),
   [t |-> STACK_STRING, v |-> "hi"], [t |-> STACK_STRTEMP, v |-> "b"],
   ArrE(STACK_INTARRAY, <<2>>, <<1, 2>>), IATEMP(<<2>>, <<1, 2>>),
   ArrE(STACK_INT64ARRAY, <<2>>, <<2^IntBits, 1>>), I64ATEMP(<<2>>, <<2^IntBits, 1>>),
   ArrE(STACK_FLOATARRAY, <<2>>, <<F12, TOFLOAT(2)>>), FATEMP(<<2>>, <<F12, TOFLOAT(2)>>),
   ArrE(STACK_STRARRAY, <<2>>, <<"a", "b">>), ArrE(STACK_SATEMP, <<2>>, <<"a", "b">>)}
\* The actual arguments used in lists of more than one argument
CommonActuals ==
  {IntE(5), FloatE(<<3, 2>>), [t |-> STACK_STRING, v |-> "hi"],
   ArrE(STACK_INTARRAY, <<2>>, <<1, 2>>)}

\* Sequences of 1..MaxParms elements: of any element of 'all' alone, of
\* elements of 'common' otherwise
ListsOf(all, common) ==
  {<<x>> : x \in all} \cup UNION {[1..n -> common] : n \in 2..MaxParms}

\* The value of a formal parameter variable before the call
OldValue == NoEntry
\* The empty string and the NIL array pointer that the locals 'stringparm'
\* and 'arrayparm' of push_oneparm start with
EmptyString == [t |-> STACK_STRING, v |-> ""]
NilArray == [t |-> STACK_UNKNOWN, v |-> 0]

\* INT64TO32(x): the macro is defined outside this file; a value that does
\* not fit is either refused or cut to its low bits
INT64TO32(x) ==
  IF InInt32(x) THEN {[err |-> "ERR_NONE", v |-> x]}
  ELSE {[err |-> "ERR_RANGE", v |-> 0], [err |-> "ERR_NONE", v |-> ToInt32(x)]}

\* A store to a byte of the memory image keeps the low bits
ToByte(x) == x % 2^ByteBits

\* The locals of a push_oneparm activation after its argument was evaluated
\* and popped: intparm, int64parm, floatparm, stringparm, arrayparm keep
\* their initial value unless the argument has their type
Frame(a) ==
  [parmtype |-> a.t,
   intparm |-> IF a.t = STACK_INT THEN a.v ELSE 0,
   int64parm |-> IF a.t = STACK_INT64 THEN a.v ELSE 0,
   floatparm |-> IF a.t = STACK_FLOAT THEN a.v ELSE FZero,
   stringparm |-> IF a.t \in {STACK_STRING, STACK_STRTEMP} THEN a ELSE EmptyString,
   arrayparm |-> IF a.t >= STACK_INTARRAY /\ a.t <= STACK_SATEMP THEN a ELSE NilArray,
   typerr |-> "ERR_NONE"]

\* The second stage of push_oneparm: the value moved to the formal parameter
\* 'formal' from the locals 'fr', or the error raised instead
StoreParm(formal, fr) ==
  LET ok(v) == [err |-> "ERR_NONE", v |-> v]
      bad(e) == [err |-> e, v |-> OldValue]
  IN  CASE formal = "VAR_INTWORD" ->
             IF fr.parmtype = STACK_INT THEN ok(IntE(fr.intparm))
             ELSE IF fr.parmtype = STACK_INT64 THEN
               IF InInt32(fr.int64parm) THEN ok(IntE(fr.int64parm)) ELSE bad("ERR_RANGE")
             ELSE IF fr.parmtype = STACK_FLOAT THEN ok(IntE(TOINT(fr.floatparm)))
             ELSE bad("ERR_BROKEN")
        [] formal = "VAR_INTLONG" ->
             IF fr.parmtype = STACK_INT THEN ok(Int64E(fr.intparm))
             ELSE IF fr.parmtype = STACK_INT64 THEN ok(Int64E(fr.int64parm))
             ELSE IF fr.parmtype = STACK_FLOAT THEN ok(Int64E(TOINT64(fr.floatparm)))
             ELSE bad("ERR_BROKEN")
        [] formal = "VAR_FLOAT" ->
             IF fr.parmtype = STACK_INT THEN ok(FloatE(TOFLOAT(fr.intparm)))
             ELSE IF fr.parmtype = STACK_INT64 THEN ok(FloatE(TOFLOAT(fr.int64parm)))
             ELSE IF fr.parmtype = STACK_FLOAT THEN ok(FloatE(fr.floatparm))
             ELSE bad("ERR_BROKEN")
        [] formal = "VAR_STRINGDOL" -> ok([t |-> STACK_STRING, v |-> fr.stringparm.v])
        [] formal = "VAR_INTBYTEPTR" ->
             ok(IntE(ToByte(IF fr.parmtype = STACK_INT THEN fr.intparm
                            ELSE TOINT(fr.floatparm))))
        [] formal = "VAR_INTWORDPTR" ->
             ok(IntE(IF fr.parmtype = STACK_INT THEN fr.intparm ELSE TOINT(fr.floatparm)))
        [] formal = "VAR_FLOATPTR" ->
             ok(FloatE(IF fr.parmtype = STACK_INT THEN TOFLOAT(fr.intparm) ELSE fr.floatparm))
        [] formal = "VAR_DOLSTRPTR" -> ok([t |-> STACK_STRING, v |-> fr.stringparm.v])
        [] formal \in {"VAR_INTARRAY", "VAR_FLOATARRAY", "VAR_STRARRAY"} -> ok(fr.arrayparm)
        [] OTHER -> bad("ERR_BROKEN")

\* save_int, save_float, ...: the old value of the formal parameter goes on
\* the Basic stack.  The default branch of the outer switch saves nothing
SavesOld(formal) == formal # "VAR_INT64ARRAY"

InitParm ==
  /\ \E l \in ListsOf(FormalTypes, CommonFormals) :
       \E s \in (IF l = <<"VAR_INTWORD">> THEN BOOLEAN ELSE {FALSE}) :
         /\ formals = [simple |-> s, parmlist |-> l]
         /\ parmvals = [i \in 1..Len(l) |-> OldValue]
  /\ actuals \in ListsOf(ActualValues, CommonActuals)
  /\ \E closing \in {RightBracket, Comma, EndToken} :
       tokens = [i \in 1..Len(actuals) |-> IF i < Len(actuals) THEN Comma ELSE closing]
  /\ pc = "call"
  /\ parmno = 0
  /\ pending = <<>>
  /\ stack = <<>>
  /\ err = "ERR_NONE"
  /\ ub = "none"
  /\ legacyintmaths = FALSE
  /\ last = [op |-> OP_NOP, fn |-> "", lh |-> NoEntry, rh |-> NoEntry]
  /\ current = 1
  /\ opstack = <<>>
  /\ opstop = 0
  /\ lastop = 0
  /\ thisop = 0
  /\ applied = <<>>
  /\ entry = [stack |-> <<>>, opstack |-> <<>>, opstop |-> 0]
  /\ errarg = <<>>
  /\ ref = <<>>
  /\ USE_SDL = FALSE
  /\ fnframe = <<>>

\* The name of the procedure or function called ('base')
procname == "PROCp"
\* The argument that error() is given with the error e raised for parameter n
ErrorArgument_NoName(e, n) == <<>>
ErrorArgument(e, n) ==
  IF e \in {"ERR_TOOMANY", "ERR_NOTENUFF"} THEN <<procname>>
  ELSE IF e \in {"ERR_PARMNUM", "ERR_PARMSTR"} THEN <<n>>
  ELSE <<>>

\* push_parameters for a definition with dp->simple set: push_singleparm
push_singleparm ==
  /\ pc = "call"
  /\ formals.simple
  /\ LET a == actuals[1]
         conv == IF a.t = STACK_INT THEN {[err |-> "ERR_NONE", v |-> a.v]}
                 ELSE IF a.t = STACK_INT64 THEN INT64TO32(a.v)
                 ELSE IF a.t = STACK_FLOAT THEN {[err |-> "ERR_NONE", v |-> TOINT(a.v)]}
                 ELSE {[err |-> "ERR_PARMNUM", v |-> 0]}
     IN  IF tokens[1] # RightBracket THEN
           /\ err' = IF tokens[1] = Comma THEN "ERR_TOOMANY" ELSE "ERR_RPMISS"
           /\ errarg' = IF tokens[1] = Comma THEN <<procname>> ELSE <<>>
           /\ stack' = <<a>>
           /\ UNCHANGED <<parmno, parmvals, current>>
         ELSE \E c \in conv :
           /\ err' = c.err
           /\ errarg' = IF c.err = "ERR_PARMNUM" THEN <<1>> ELSE <<>>
           /\ parmno' = IF c.err = "ERR_PARMNUM" THEN 1 ELSE parmno
           /\ current' = current + 1
           /\ IF c.err = "ERR_NONE"
              THEN /\ stack' = <<[saved |-> 1, old |-> parmvals[1]]>>
                   /\ parmvals' = [parmvals EXCEPT ![1] = IntE(c.v)]
              ELSE UNCHANGED <<stack, parmvals>>
  /\ pc' = "done"
  /\ UNCHANGED <<ub, legacyintmaths, last, tokens, opstack, opstop, lastop, thisop,
                 applied, formals, actuals, pending, entry, ref, USE_SDL, fnframe>>

\* push_parameters otherwise: push_oneparm(dp->parmlist, 1, base)
push_parameters ==
  /\ pc = "call"
  /\ ~formals.simple
  /\ parmno' = 1
  /\ pc' = "parm"
  /\ UNCHANGED <<stack, err, ub, legacyintmaths, last, current, tokens, opstack,
                 opstop, lastop, thisop, applied, formals, actuals, pending,
                 parmvals, entry, errarg, ref, USE_SDL, fnframe>>

\* push_oneparm moving each argument to its formal parameter as soon as it
\* has passed the type check
push_oneparm_evaluate_Stores ==
  /\ pc = "parm"
  /\ LET fp == formals.parmlist[parmno]
         a == actuals[parmno]
         popped == a.t >= STACK_INT /\ a.t <= STACK_SATEMP
         typerr == TypeCheck(fp, a.t)
         more == parmno < Len(formals.parmlist)
     IN  IF ~popped THEN
           /\ err' = "ERR_BROKEN"
           /\ pc' = "done"
           /\ UNCHANGED <<pending, parmno, current>>
         ELSE
           /\ pending' = Append(pending, [Frame(a) EXCEPT !.typerr = typerr])
           /\ IF typerr # "ERR_NONE" THEN
                /\ err' = typerr
                /\ pc' = "done"
                /\ UNCHANGED <<parmno, current>>
              ELSE IF tokens[parmno] = Comma THEN
                /\ current' = current + 1
                /\ IF parmno = Len(actuals) THEN
                     err' = "ERR_SYNTAX" /\ pc' = "done" /\ UNCHANGED parmno
                   ELSE IF ~more THEN
                     err' = "ERR_TOOMANY" /\ pc' = "done" /\ UNCHANGED parmno
                   ELSE
                     parmno' = parmno + 1 /\ pc' = "parm" /\ UNCHANGED err
              ELSE IF tokens[parmno] = RightBracket THEN
                IF more THEN
                  err' = "ERR_NOTENUFF" /\ pc' = "done" /\ UNCHANGED <<parmno, current>>
                ELSE
                  current' = current + 1 /\ pc' = "assign" /\ UNCHANGED <<parmno, err>>
              ELSE
                err' = "ERR_CORPNEXT" /\ pc' = "done" /\ UNCHANGED <<parmno, current>>
  /\ errarg' = ErrorArgument(err', parmno)
  /\ parmvals' = IF TypeCheck(formals.parmlist[parmno], actuals[parmno].t) = "ERR_NONE"
                 THEN [parmvals EXCEPT ![parmno] =
                         StoreParm(formals.parmlist[parmno], Frame(actuals[parmno])).v]
                 ELSE parmvals
  /\ UNCHANGED <<stack, ub, legacyintmaths, last, tokens, opstack, opstop, lastop,
                 thisop, applied, formals, actuals, entry, ref, USE_SDL, fnframe>>

\* The first stage of push_oneparm for parameter 'parmno': the argument is
\* evaluated and popped, its type is checked, and the token after it decides
\* between the next parameter, the end of the list and an error
push_oneparm_evaluate ==
  /\ pc = "parm"
  /\ LET fp == formals.parmlist[parmno]
         a == actuals[parmno]
         popped == a.t >= STACK_INT /\ a.t <= STACK_SATEMP
         typerr == TypeCheck(fp, a.t)
         more == parmno < Len(formals.parmlist)
     IN  IF ~popped THEN
           /\ err' = "ERR_BROKEN"
           /\ pc' = "done"
           /\ UNCHANGED <<pending, parmno, current>>
         ELSE
           /\ pending' = Append(pending, [Frame(a) EXCEPT !.typerr = typerr])
           /\ IF typerr # "ERR_NONE" THEN
                /\ err' = typerr
                /\ pc' = "done"
                /\ UNCHANGED <<parmno, current>>
              ELSE IF tokens[parmno] = Comma THEN
                /\ current' = current + 1
                /\ IF parmno = Len(actuals) THEN
                     err' = "ERR_SYNTAX" /\ pc' = "done" /\ UNCHANGED parmno
                   ELSE IF ~more THEN
                     err' = "ERR_TOOMANY" /\ pc' = "done" /\ UNCHANGED parmno
                   ELSE
                     parmno' = parmno + 1 /\ pc' = "parm" /\ UNCHANGED err
              ELSE IF tokens[parmno] = RightBracket THEN
                IF more THEN
                  err' = "ERR_NOTENUFF" /\ pc' = "done" /\ UNCHANGED <<parmno, current>>
                ELSE
                  current' = current + 1 /\ pc' = "assign" /\ UNCHANGED <<parmno, err>>
              ELSE
                err' = "ERR_CORPNEXT" /\ pc' = "done" /\ UNCHANGED <<parmno, current>>
  /\ errarg' = ErrorArgument(err', parmno)
  /\ UNCHANGED <<stack, ub, legacyintmaths, last, tokens, opstack, opstop, lastop,
                 thisop, applied, formals, actuals, parmvals, entry, ref, USE_SDL, fnframe>>

\* The second stage of push_oneparm for parameter 'parmno', reached when the
\* activations for the parameters after it have returned
push_oneparm_assign ==
  /\ pc = "assign"
  /\ LET fp == formals.parmlist[parmno]
         st == StoreParm(fp, pending[parmno])
     IN  /\ stack' = IF SavesOld(fp)
                     THEN Append(stack, [saved |-> parmno, old |-> parmvals[parmno]])
                     ELSE stack
         /\ err' = st.err
         /\ parmvals' = IF st.err = "ERR_NONE" THEN [parmvals EXCEPT ![parmno] = st.v]
                        ELSE parmvals
         /\ IF st.err # "ERR_NONE" \/ parmno = 1
            THEN pc' = "done" /\ UNCHANGED parmno
            ELSE pc' = "assign" /\ parmno' = parmno - 1
  /\ UNCHANGED <<ub, legacyintmaths, last, current, tokens, opstack, opstop, lastop,
                 thisop, applied, formals, actuals, pending, entry, errarg, ref, USE_SDL, fnframe>>

NextParm ==
  \/ push_singleparm
  \/ push_parameters
  \/ push_oneparm_evaluate
  \/ push_oneparm_assign

SpecParm == InitParm /\ [][NextParm]_vars

(***************************************************************************)
(* Properties of expression()                                              *)
(***************************************************************************)
\* The six relational operators = <> < > <= >=
Relational == {61, 138, 60, 62, 133, 132}

\* The priority classes of the language, highest first: power,
\* multiplicative, additive, relational, logical AND, logical OR / EOR
RefClass(t) ==
  CASE t = 94 -> 6
    [] t \in {42, 46, 47, 130, 137} -> 5
    [] t \in {43, 45} -> 4
    [] t \in Relational -> 3
    [] t = 128 -> 2
    [] t \in {139, 131} -> 1
    [] OTHER -> 0

\* Positions of the operators and of the end of the expression in the stream
OpPositions == {k \in 1..(Len(tokens) - 1) : k % 2 = 0}
EndPosition == Len(tokens)
\* Every operator of the expression belongs to one of the six classes
Classified == \A k \in OpPositions : RefClass(tokens[k]) > 0

\* The relational operator at j follows a relational operator from which only
\* operators of higher priority separate it
ChainAt(j) ==
  /\ tokens[j] \in Relational
  /\ \E i \in OpPositions :
       /\ i < j
       /\ tokens[i] \in Relational
       /\ \A k \in OpPositions : (i < k /\ k < j) => RefClass(tokens[k]) > 3
HasChain == \E j \in OpPositions : ChainAt(j)
FirstChain == CHOOSE j \in OpPositions : ChainAt(j) /\ \A k \in OpPositions : ChainAt(k) => j <= k

\* The reference parser: the operator applied last in tokens[lo..hi] is the
\* rightmost one of the lowest class
RefSplit(lo, hi) ==
  LET ops == {k \in OpPositions : lo < k /\ k < hi}
      low == CHOOSE c \in 1..6 : /\ \E k \in ops : RefClass(tokens[k]) = c
                                 /\ \A k \in ops : RefClass(tokens[k]) >= c
  IN  CHOOSE k \in ops : /\ RefClass(tokens[k]) = low
                         /\ \A m \in ops : RefClass(tokens[m]) = low => m <= k
RECURSIVE RefTree(_, _)
RefTree(lo, hi) ==
  IF lo = hi THEN [f |-> lo]
  ELSE LET k == RefSplit(lo, hi)
       IN  [op |-> optable[tokens[k]] % 256, lh |-> RefTree(lo, k - 1), rh |-> RefTree(k + 1, hi)]
\* The applications the reference parser makes, in order
RECURSIVE RefOrder(_, _)
RefOrder(lo, hi) ==
  IF lo = hi THEN <<>>
  ELSE LET k == RefSplit(lo, hi)
       IN  RefOrder(lo, k - 1) \o RefOrder(k + 1, hi) \o <<RefTree(lo, hi)>>

ReturnedNormally == pc = "done" /\ err = "ERR_NONE"

ParmTypeErrors == {"ERR_PARMNUM", "ERR_PARMSTR"}

\* Formal and actual are in the same class: numeric scalars, strings, or
\* arrays of the same base type
SameClass(formal, parmtype) ==
  \/ /\ formal \in {"VAR_INTBYTEPTR", "VAR_INTWORD", "VAR_INTWORDPTR", "VAR_INTLONG",
                    "VAR_FLOAT", "VAR_FLOATPTR"}
     /\ parmtype \in {STACK_INT, STACK_INT64, STACK_FLOAT}
  \/ /\ formal \in {"VAR_STRINGDOL", "VAR_DOLSTRPTR"}
     /\ parmtype \in {STACK_STRING, STACK_STRTEMP}
  \/ formal = "VAR_INTARRAY" /\ parmtype \in {STACK_INTARRAY, STACK_IATEMP}
  \/ formal = "VAR_INT64ARRAY" /\ parmtype \in {STACK_INT64ARRAY, STACK_I64ATEMP}
  \/ formal = "VAR_FLOATARRAY" /\ parmtype \in {STACK_FLOATARRAY, STACK_FATEMP}
  \/ formal = "VAR_STRARRAY" /\ parmtype \in {STACK_STRARRAY, STACK_SATEMP}

\* C5: the type check of push_oneparm accepts an argument exactly when formal
\* and actual are in the same class and raises a parameter-type error for
\* every other combination
C5_TypeClasses ==
  \A p \in 1..Len(pending) :
    IF SameClass(formals.parmlist[p], pending[p].parmtype)
    THEN pending[p].typerr = "ERR_NONE"
    ELSE pending[p].typerr \in ParmTypeErrors

\* A float argument has passed the type check of a string parameter
C5_FloatForString ==
  /\ Len(pending) = 1
  /\ formals.parmlist[1] = "VAR_STRINGDOL"
  /\ pending[1].parmtype = STACK_FLOAT
  /\ pending[1].typerr = "ERR_NONE"

\* The positions at which formal and actual are not in the same class
Incompatible ==
  {p \in 1..Len(actuals) :
     p <= Len(formals.parmlist) /\ ~SameClass(formals.parmlist[p], actuals[p].t)}
ArgTypes == [p \in 1..Len(actuals) |-> actuals[p].t]

\* C6: a parameter-type error names the first position whose argument is
\* incompatible with its formal parameter, and on the general path an
\* incompatible argument raises one; (integer, string) called with
\* (5, "hi") binds, and called with ("hi", 5) fails at position 1 with the
\* second argument not evaluated
C6_FirstIncompatible ==
  pc = "done" =>
    /\ err \in ParmTypeErrors => (Incompatible # {} /\ parmno = Min(Incompatible))
    /\ (Incompatible # {} /\ ~formals.simple) => err \in ParmTypeErrors
    /\ ( /\ formals.parmlist = <<"VAR_INTWORD", "VAR_STRINGDOL">>
         /\ tokens[Len(tokens)] = RightBracket
         /\ ArgTypes = <<STACK_INT, STACK_STRING>> ) => err = "ERR_NONE"
    /\ ( /\ formals.parmlist = <<"VAR_INTWORD", "VAR_STRINGDOL">>
         /\ ArgTypes = <<STACK_STRING, STACK_INT>> )
         => (err = "ERR_PARMNUM" /\ parmno = 1 /\ Len(pending) = 1)

\* (string, integer) called with (1.5, "hi"): the error names position 2
C6_SecondReported ==
  /\ pc = "done"
  /\ formals.parmlist = <<"VAR_STRINGDOL", "VAR_INTWORD">>
  /\ ArgTypes = <<STACK_FLOAT, STACK_STRING>>
  /\ err = "ERR_PARMNUM"
  /\ parmno = 2

(***************************************************************************)
(* Array element references and the indirection operators '?' and '!':     *)
(* do_arrayref, do_statindvar, do_indrefvar, do_getbyte and do_getword.    *)
(* The memory image and the display frame are not written by these         *)
(* functions and are modelled as fixed contents.  The display window of    *)
(* 1024 bytes with 25 rows of 40 cells is modelled at reduced size.        *)
(***************************************************************************)
\* Size of the memory image, and the reduced sizes of the display window
\* (1024), of the cells in it (1000) and of a row of cells (40)
MemSize == 64
Mode7Window == 12
Mode7Cells == 8
Mode7Cols == 4
\* matrixflags.mode7fb: the address of the display window
MODE7FB == 32
\* Tokens of the indirection operators '?' and '!'
ByteOperator == 63
WordOperator == 33

\* basicvars.offbase[offset] and mode7frame[msy][msx]
offbase(offset) == 1 + (offset % 2)
mode7frame(msy, msx) == IF msx % 2 = 0 THEN 3 ELSE 0
Mode7Rows == Mode7Cells \div Mode7Cols

\* check_read(offset, size): the range [offset, offset+size) lies inside the
\* memory image (a negative value is a huge size_t)
check_read(offset, size) == offset >= 0 /\ offset + size <= MemSize

\* One outcome of a reference: the value pushed or the error raised
Pushed(v) == [val |-> v, err |-> "ERR_NONE", arg |-> <<>>, ub |-> "none"]
Raised(e, a) == [val |-> NoEntry, err |-> e, arg |-> a, ub |-> "none"]

\* get_integer(offset): the four bytes at offset, lowest first.  Nothing in
\* this file checks the address of a word read
get_integer(offset) ==
  IF check_read(offset, 4)
  THEN {Pushed(IntE(ToInt32(offbase(offset) + offbase(offset + 1) * 2^ByteBits
                            + offbase(offset + 2) * 2^(2 * ByteBits)
                            + offbase(offset + 3) * 2^(3 * ByteBits))))}
  ELSE {Raised("ERR_ADDRESS", <<>>),
        [val |-> NoEntry, err |-> "CRASH", arg |-> <<>>, ub |-> "badread"]}

\* The cell of the display frame at sub-offset 'sub' of the window
Mode7Byte(sub) == mode7frame(sub \div Mode7Cols, sub % Mode7Cols)
\* for (loop=3; loop>=0; loop--) { val = val << 8; ... if (msy < 25) val += ... }
Mode7Word(sub) ==
  LET cell(k) == IF (sub + k) \div Mode7Cols < Mode7Rows THEN Mode7Byte(sub + k) ELSE 0
  IN  ToInt32(cell(0) + cell(1) * 2^ByteBits + cell(2) * 2^(2 * ByteBits)
              + cell(3) * 2^(3 * ByteBits))

\* The byte read of do_getbyte and do_indrefvar: check_read, then the display
\* window when the build has it
ReadByteMode7(offset) ==
  IF ~check_read(offset, 1) THEN {Raised("ERR_ADDRESS", <<>>)}
  ELSE IF USE_SDL /\ offset >= MODE7FB /\ offset <= MODE7FB + Mode7Window - 1 THEN
    IF offset - MODE7FB >= Mode7Cells THEN {Pushed(IntE(0))}
    ELSE {Pushed(IntE(Mode7Byte(offset - MODE7FB)))}
  ELSE {Pushed(IntE(offbase(offset)))}

\* The byte read of do_arrayref and do_statindvar
ReadByte(offset) ==
  IF ~check_read(offset, 1) THEN {Raised("ERR_ADDRESS", <<>>)}
  ELSE {Pushed(IntE(offbase(offset)))}

\* The word read of do_getword (upto = Mode7Window - 4) and of do_indrefvar
\* (upto = Mode7Window - 1)
ReadWordMode7(offset, upto) ==
  IF USE_SDL /\ offset >= MODE7FB /\ offset <= MODE7FB + upto THEN
    IF offset - MODE7FB >= Mode7Cells THEN {Pushed(IntE(0))}
    ELSE {Pushed(IntE(Mode7Word(offset - MODE7FB)))}
  ELSE get_integer(offset)

\* The operand of an indirection operator as an offset: 'narrow' says that a
\* float is converted with TOINT instead of TOINT64
OffsetOf(e, narrow) ==
  IF e.t = STACK_INT \/ e.t = STACK_INT64 THEN [err |-> "ERR_NONE", v |-> e.v]
  ELSE IF e.t = STACK_FLOAT
  THEN [err |-> "ERR_NONE", v |-> IF narrow THEN TOINT(e.v) ELSE TOINT64(e.v)]
  ELSE [err |-> "ERR_TYPENUM", v |-> 0]

\* Bound of the number of indexes of a reference
MaxIndexes == 3

\* The index of a one-dimensional array: pop_int(), INT64TO32(pop_int64())
\* or TOINT(pop_float())
Index1(e) ==
  IF e.t = STACK_INT THEN {[err |-> "ERR_NONE", v |-> e.v]}
  ELSE IF e.t = STACK_INT64 THEN INT64TO32(e.v)
  ELSE IF e.t = STACK_FLOAT THEN {[err |-> "ERR_NONE", v |-> TOINT(e.v)]}
  ELSE {[err |-> "ERR_TYPENUM", v |-> 0]}

\* An index of an array of several dimensions: there is no int64 case
IndexN(e) ==
  IF e.t = STACK_INT THEN [err |-> "ERR_NONE", v |-> e.v]
  ELSE IF e.t = STACK_FLOAT THEN [err |-> "ERR_NONE", v |-> TOINT(e.v)]
  ELSE [err |-> "ERR_TYPENUM", v |-> 0]

\* descriptor->dimsize[dimcount]: an entry after the last dimension of the
\* array holds whatever was left there
DimSizes(r, dimcount) ==
  IF dimcount < Len(r.arr.v.dims) THEN {r.arr.v.dims[dimcount + 1]}
  ELSE {0, MAXINTVAL + 1}

\* Outcomes of the index part of a reference: the element number or an error
Element(n) == [err |-> "ERR_NONE", arg |-> <<>>, element |-> n]
NoElement(e, a) == [err |-> e, arg |-> a, element |-> 0]

\* The one-dimensional case with the upper limit one too low
ElementOf1_LastRejected(r) ==
  {IF c.err # "ERR_NONE" THEN NoElement(c.err, <<>>)
   ELSE IF c.v < 0 \/ c.v >= r.arr.v.dims[1] - 1
   THEN NoElement("ERR_BADINDEX", <<c.v, r.name>>)
   ELSE Element(c.v) : c \in Index1(r.indexes[1])}

\* The one-dimensional case of do_arrayref
ElementOf1(r) ==
  {IF c.err # "ERR_NONE" THEN NoElement(c.err, <<>>)
   ELSE IF c.v < 0 \/ c.v >= r.arr.v.dims[1]
   THEN NoElement("ERR_BADINDEX", <<c.v, r.name>>)
   ELSE Element(c.v) : c \in Index1(r.indexes[1])}

\* The loop 'do { ... } while (TRUE)' that gathers the indexes of an array of
\* several dimensions, from the turn with 'dimcount' indexes gathered
RECURSIVE Gather(_, _, _)
Gather(r, dimcount, element) ==
  LET maxdims == Len(r.arr.v.dims)
      ix == IndexN(r.indexes[dimcount + 1])
      count == dimcount + 1
      sum == element + ix.v
  IN  IF ix.err # "ERR_NONE" THEN {NoElement(ix.err, <<>>)}
      ELSE UNION {
        IF ix.v < 0 \/ ix.v >= size THEN {NoElement("ERR_BADINDEX", <<ix.v, r.name>>)}
        ELSE IF count = Len(r.indexes) THEN
          IF count # maxdims THEN {NoElement("ERR_INDEXCO", <<r.name>>)}
          ELSE {Element(sum)}
        ELSE IF count > maxdims THEN {NoElement("ERR_INDEXCO", <<r.name>>)}
        ELSE IF count # maxdims THEN Gather(r, count, sum * r.arr.v.dims[count + 1])
        ELSE Gather(r, count, sum)
        : size \in DimSizes(r, dimcount)}

\* The element a reference to an array names
ElementOf(r) ==
  LET found == IF Len(r.arr.v.dims) = 1 THEN ElementOf1(r) ELSE Gather(r, 0, 0)
  IN  {IF f.err = "ERR_NONE" /\ r.closing # RightBracket
       THEN NoElement("ERR_RPMISS", <<>>) ELSE f : f \in found}

\* The reads after the offset was computed
SuffixRead(operator, offset) ==
  IF operator = ByteOperator THEN ReadByte(offset) ELSE get_integer(offset)

\* do_arrayref after the element number was found
ArrayValue(r, element) ==
  LET a == r.arr
      el == a.v.el[element + 1]
      operand == OffsetOf(r.operand, FALSE)
  IN  IF r.suffix # ByteOperator /\ r.suffix # WordOperator THEN
        IF a.t = STACK_INTARRAY THEN {Pushed(IntE(el))}
        ELSE IF a.t = STACK_INT64ARRAY THEN {Pushed(Int64E(el))}
        ELSE IF a.t = STACK_FLOATARRAY THEN {Pushed(FloatE(el))}
        ELSE IF a.t = STACK_STRARRAY THEN {Pushed([t |-> STACK_STRING, v |-> el])}
        ELSE {Raised("ERR_BROKEN", <<>>)}
      ELSE IF a.t \notin {STACK_INTARRAY, STACK_INT64ARRAY, STACK_FLOATARRAY}
      THEN {Raised("ERR_TYPENUM", <<>>)}
      ELSE IF operand.err # "ERR_NONE" THEN {Raised(operand.err, <<>>)}
      ELSE SuffixRead(r.suffix,
                      (IF a.t = STACK_FLOATARRAY THEN TOINT64(el) ELSE el) + operand.v)

ArrayRef(r) ==
  UNION {IF f.err # "ERR_NONE" THEN {Raised(f.err, f.arg)} ELSE ArrayValue(r, f.element)
         : f \in ElementOf(r)}

\* do_statindvar: a static integer variable followed by '?' or '!'
StatIndVar(r) ==
  LET operand == OffsetOf(r.operand, FALSE)
  IN  IF operand.err # "ERR_NONE" THEN {Raised(operand.err, <<>>)}
      ELSE SuffixRead(r.suffix, r.value.v + operand.v)

\* do_indrefvar: an integer or floating point variable followed by '?' or '!'
IndRefVar(r) ==
  LET base == IF r.value.t = STACK_INT THEN r.value.v ELSE TOINT64(r.value.v)
      operand == OffsetOf(r.operand, FALSE)
  IN  IF operand.err # "ERR_NONE" THEN {Raised(operand.err, <<>>)}
      ELSE IF r.suffix = ByteOperator THEN ReadByteMode7(base + operand.v)
      ELSE ReadWordMode7(base + operand.v, Mode7Window - 1)

\* do_getbyte: the operator '?' on its own
GetByte(r) ==
  LET operand == OffsetOf(r.operand, TRUE)
  IN  IF operand.err # "ERR_NONE" THEN {Raised(operand.err, <<>>)}
      ELSE ReadByteMode7(operand.v)

\* do_getword: the operator '!' on its own
GetWord(r) ==
  LET operand == OffsetOf(r.operand, FALSE)
  IN  IF operand.err # "ERR_NONE" THEN {Raised(operand.err, <<>>)}
      ELSE ReadWordMode7(operand.v, Mode7Window - 4)

\* The arrays, indexes, variables and operands of the references explored
RefArrays ==
  {ArrE(STACK_INTARRAY, <<3>>, <<5, 6, 7>>),
   ArrE(STACK_INT64ARRAY, <<2>>, <<MODE7FB, MODE7FB + Mode7Cells>>),
   ArrE(STACK_FLOATARRAY, <<2>>, <<F12, TOFLOAT(2)>>),
   ArrE(STACK_STRARRAY, <<2>>, <<"a", "b">>),
   ArrE(STACK_INTARRAY, <<2, 3>>, <<1, 2, 3, 4, 5, 6>>),
   ArrE(STACK_INTARRAY, <<2, 1, 2>>, <<7, 8, 9, 10>>)}
IndexValues ==
  {IntE(0 - 1), IntE(0), IntE(1), IntE(2), IntE(3), IntE(MAXINTVAL),
   Int64E(1), Int64E(2^IntBits), Int64E(0 - 1), FloatE(TOFLOAT(2)), FloatE(F12),
   FloatE(TOFLOAT(3)), [t |-> STACK_STRING, v |-> "a"]}
BaseValues == {IntE(0), IntE(1), FloatE(TOFLOAT(2))}
OffsetOperands ==
  {IntE(0), IntE(2), IntE(0 - 3), Int64E(MODE7FB), Int64E(MODE7FB + 1),
   Int64E(MODE7FB + Mode7Cells), Int64E(MODE7FB + Mode7Window - 3),
   Int64E(MODE7FB + Mode7Window), Int64E(MemSize - 2), FloatE(<<5, 2>>),
   FloatE(TOFLOAT(MODE7FB + 2)), [t |-> STACK_STRING, v |-> "a"]}

Reference(form, arr, value, indexes, closing, suffix, operand) ==
  [form |-> form, name |-> "A", arr |-> arr, value |-> value, indexes |-> indexes,
   closing |-> closing, suffix |-> suffix, operand |-> operand]

References ==
  {Reference("arrayref", a, NoEntry, ix, RightBracket, EndToken, NoEntry)
     : a \in RefArrays, ix \in UNION {[1..n -> IndexValues] : n \in 1..MaxIndexes}}
  \cup {Reference("arrayref", a, NoEntry, <<ix>>, EndToken, EndToken, NoEntry)
     : a \in RefArrays, ix \in IndexValues}
  \cup {Reference("arrayref", a, NoEntry, <<IntE(ix)>>, RightBracket, s, o)
     : a \in RefArrays, ix \in {0, 1}, s \in {ByteOperator, WordOperator},
       o \in OffsetOperands}
  \cup {Reference("statindvar", NoEntry, v, <<>>, EndToken, s, o)
     : v \in {IntE(0), IntE(1)}, s \in {ByteOperator, WordOperator}, o \in OffsetOperands}
  \cup {Reference("indrefvar", NoEntry, v, <<>>, EndToken, s, o)
     : v \in BaseValues, s \in {ByteOperator, WordOperator}, o \in OffsetOperands}
  \cup {Reference("getbyte", NoEntry, NoEntry, <<>>, EndToken, ByteOperator, o)
     : o \in OffsetOperands}
  \cup {Reference("getword", NoEntry, NoEntry, <<>>, EndToken, WordOperator, o)
     : o \in OffsetOperands}

InitRef ==
  /\ ref \in References
  /\ USE_SDL \in BOOLEAN
  /\ fnframe = <<>>
  /\ pc = "ref"
  /\ stack = <<>>
  /\ err = "ERR_NONE"
  /\ errarg = <<>>
  /\ ub = "none"
  /\ legacyintmaths = FALSE
  /\ last = [op |-> OP_NOP, fn |-> "", lh |-> NoEntry, rh |-> NoEntry]
  /\ current = 1
  /\ tokens = <<>>
  /\ opstack = <<>>
  /\ opstop = 0
  /\ lastop = 0
  /\ thisop = 0
  /\ applied = <<>>
  /\ formals = <<>>
  /\ actuals = <<>>
  /\ parmno = 0
  /\ pending = <<>>
  /\ parmvals = <<>>
  /\ entry = [stack |-> <<>>, opstack |-> <<>>, opstop |-> 0]

\* The factor function leaves its value on the Basic stack or raises an error
Finish(outcomes) ==
  /\ \E o \in outcomes :
       /\ stack' = IF o.err = "ERR_NONE" THEN Append(stack, o.val) ELSE stack
       /\ err' = o.err
       /\ errarg' = o.arg
       /\ ub' = o.ub
  /\ pc' = "done"
  /\ UNCHANGED <<legacyintmaths, last, current, tokens, opstack, opstop, lastop,
                 thisop, applied, formals, actuals, parmno, pending, parmvals,
                 entry, ref, USE_SDL, fnframe>>

do_arrayref == pc = "ref" /\ ref.form = "arrayref" /\ Finish(ArrayRef(ref))

do_statindvar == pc = "ref" /\ ref.form = "statindvar" /\ Finish(StatIndVar(ref))

do_indrefvar == pc = "ref" /\ ref.form = "indrefvar" /\ Finish(IndRefVar(ref))

do_getbyte == pc = "ref" /\ ref.form = "getbyte" /\ Finish(GetByte(ref))

do_getword == pc = "ref" /\ ref.form = "getword" /\ Finish(GetWord(ref))

NextRef ==
  \/ do_arrayref
  \/ do_statindvar
  \/ do_indrefvar
  \/ do_getbyte
  \/ do_getword

SpecRef == InitRef /\ [][NextRef]_vars

(***************************************************************************)
(* Properties of array references and indirection                          *)
(***************************************************************************)
\* The entry is a number without a fractional part; its value
IsWhole(e) ==
  \/ e.t \in {STACK_INT, STACK_INT64}
  \/ e.t = STACK_FLOAT /\ e.v[1] % e.v[2] = 0
WholeValue(e) == IF e.t = STACK_FLOAT THEN Trunc(e.v) ELSE e.v

\* The entry that holds element i of the array a
ElementEntry(a, i) ==
  [t |-> CASE a.t = STACK_INTARRAY -> STACK_INT
           [] a.t = STACK_INT64ARRAY -> STACK_INT64
           [] a.t = STACK_FLOATARRAY -> STACK_FLOAT
           [] OTHER -> STACK_STRING,
   v |-> a.v.el[i + 1]]

\* A plain reference A(i) to a one-dimensional array has been evaluated
OneDimRef ==
  /\ pc = "done" /\ ref.form = "arrayref"
  /\ Len(ref.arr.v.dims) = 1 /\ Len(ref.indexes) = 1
  /\ ref.closing = RightBracket /\ ref.suffix = EndToken
  /\ IsWhole(ref.indexes[1])

\* What C11 requires of the reference with index i
IndexChecked(i) ==
  IF 0 <= i /\ i < ref.arr.v.dims[1]
  THEN err = "ERR_NONE" /\ stack = <<ElementEntry(ref.arr, i)>>
  ELSE err = "ERR_BADINDEX" /\ errarg = <<i, ref.name>> /\ stack = <<>>

\* C11 as stated: for an array of extent n the access with index i yields
\* element i exactly when 0 <= i < n, and every other index raises the
\* bad-index error with the index and the name of the array
C11_BoundsCheck == OneDimRef => IndexChecked(WholeValue(ref.indexes[1]))

\* C11 (amended): the same for every index whose value is representable as
\* a 32-bit integer
C11_BoundsCheckInt32 ==
  (OneDimRef /\ InInt32(WholeValue(ref.indexes[1])))
    => IndexChecked(WholeValue(ref.indexes[1]))

\* The index equal to the extent has been refused
C11_ExtentRefused ==
  /\ OneDimRef
  /\ WholeValue(ref.indexes[1]) = ref.arr.v.dims[1]
  /\ err = "ERR_BADINDEX"

(***************************************************************************)
(* Strings, floating point right-hand operands, shifts and the logical     *)
(* operators.  A string value is the sequence of its bytes.                *)
(***************************************************************************)
MAXSTRING == 3
ShiftBits == 4
\* The modulus of 'rhint %= 256', kept above the width of a 64-bit integer
ShiftRange == 2^ShiftBits

StrE(str) == [t |-> STACK_STRING, v |-> str]
StrTempE(str) == [t |-> STACK_STRTEMP, v |-> str]
SATEMP(dims, el) == ArrE(STACK_SATEMP, dims, el)

\* The element loop of eval_svplus that appends the right-hand string to
\* every element of the left-hand array
AppendAll(s2, lh, rhstring) ==
  IF \E n \in 1..Len(lh.el) : Len(lh.el[n]) + Len(rhstring) > MAXSTRING
  THEN {Fail(s2, "ERR_STRINGLEN")}
  ELSE {Ok(Push(s2, SATEMP(lh.dims, [n \in 1..Len(lh.el) |-> lh.el[n] \o rhstring])))}

\* String concatenation with the left-hand string written after the
\* right-hand one
Concat_Swapped(s2, lhstring, rhstring) ==
  {Ok(Push(s2, StrTempE(rhstring \o lhstring)))}
\* The result of both branches (left-hand string reused or copied): the bytes
\* of the left-hand string followed by the bytes of the right-hand string
Concat(s2, lhstring, rhstring) ==
  LET newlen == Len(lhstring) + Len(rhstring)
  IN  IF newlen > MAXSTRING THEN {Fail(s2, "ERR_STRINGLEN")}
      ELSE {Ok(Push(s2, StrTempE(lhstring \o rhstring)))}

eval_svplus(s) ==
  LET rhstring == Top(s).v
      s1 == Pop(s)
      lhitem == GET_TOPITEM(s1)
      lh == Top(s1)
      s2 == Pop(s1)
  IN  IF lhitem = STACK_STRING \/ lhitem = STACK_STRTEMP THEN
        IF Len(rhstring) = 0 THEN {Ok(s1)}
        ELSE Concat(s2, lh.v, rhstring)
      ELSE IF lhitem = STACK_STRARRAY THEN
        IF Len(rhstring) = 0 THEN {Ok(s1)}
        ELSE AppendAll(s2, lh.v, rhstring)
      ELSE want_string(s1)

\* The float result of x + y or x * y
FloatOp(op, x, y) == IF op = OP_ADD THEN FAdd(x, y) ELSE FMul(x, y)

\* eval_fvplus and eval_fvmul have the same shape.  The condition of the
\* first array branch contains the constant STACK_INT64ARRAY as an operand of
\* ||, so every left-hand operand that is not a number is popped with
\* pop_array() and the branch for STACK_FATEMP is never taken
FloatRight(s, op) ==
  LET floatvalue == Top(s).v
      s1 == Pop(s)
      lhitem == GET_TOPITEM(s1)
      lh == Top(s1)
      s2 == Pop(s1)
  IN  IF lhitem = STACK_INT \/ lhitem = STACK_INT64 THEN
        {Ok(push_float(s2, FloatOp(op, TOFLOAT(lh.v), floatvalue)))}
      ELSE IF lhitem = STACK_FLOAT THEN
        {Ok(push_float(s2, FloatOp(op, lh.v, floatvalue)))}
      ELSE IF lhitem = STACK_INTARRAY \/ STACK_INT64ARRAY # 0 \/ lhitem = STACK_FLOATARRAY THEN
        IF lhitem = STACK_INTARRAY \/ lhitem = STACK_INT64ARRAY THEN
          {Ok(Push(s2, FATEMP(lh.v.dims, [n \in 1..Len(lh.v.el) |-> FloatOp(op, TOFLOAT(lh.v.el[n]), floatvalue)])))}
        ELSE IF lhitem = STACK_FLOATARRAY THEN
          {Ok(Push(s2, FATEMP(lh.v.dims, [n \in 1..Len(lh.v.el) |-> FloatOp(op, lh.v.el[n], floatvalue)])))}
        ELSE Undefined(s2, "badpop")
      ELSE IF lhitem = STACK_FATEMP THEN
        {Ok(Push(s2, FATEMP(lh.v.dims, [n \in 1..Len(lh.v.el) |-> FloatOp(op, lh.v.el[n], floatvalue)])))}
      ELSE want_number(s1)

eval_fvplus(s) == FloatRight(s, OP_ADD)
eval_fvmul(s) == FloatRight(s, OP_MUL)

(***************************************************************************)
(* Shifts                                                                  *)
(***************************************************************************)
\* The shift count taken from the right-hand operand, before 'rhint %= 256'
ShiftCount(e) ==
  IF e.t = STACK_INT THEN {[err |-> "ERR_NONE", v |-> e.v]}
  ELSE IF e.t = STACK_INT64 THEN INT64TO32(e.v)
  ELSE {[err |-> "ERR_NONE", v |-> TOINT(e.v)]}

\* rhint %= 256; while (rhint < 0) rhint += 256;
Reduce_NoModulus(rhint) == IF rhint < 0 THEN 0 ELSE rhint
Reduce(rhint) ==
  LET r == CMod(rhint, ShiftRange) IN IF r < 0 THEN r + ShiftRange ELSE r

\* x << n in a signed type of 'bits' bits: where the count reaches the width
\* the build gives zero or uses the count modulo the width; a result that
\* does not fit is cut to the width
ShiftLeft(x, n, bits) ==
  LET lo == 0 - 2^(bits - 1)
      cut(y) == ((y - lo) % 2^bits) + lo
  IN  IF n < bits THEN {cut(x * 2^n)} ELSE {0, cut(x * 2^(n % bits))}
\* The shift is one whose result C defines or every build agrees on
ShiftDefined(x, n, bits) ==
  n < bits /\ 0 - 2^(bits - 1) <= x * 2^n /\ x * 2^n < 2^(bits - 1)

\* x >> n on a signed x of 'bits' bits: for a negative x the build shifts in
\* copies of the sign bit or zeros
ShiftRight(x, n, bits) ==
  IF x >= 0 \/ n = 0 THEN {x \div 2^n}
  ELSE {0 - ((2^n - 1 - x) \div 2^n), (x + 2^bits) \div 2^n}

\* y | (x & signbit) for a y of 'bits' bits
OrSign(y, x, bits) ==
  IF x < 0 /\ y >= 0 THEN y - 2^(bits - 1) ELSE y

\* The int32 left-hand operand of <<: val32 and val64 are both computed
\* before the count is compared with 64
ShiftInt(s2, lhint, rhint) ==
  IF rhint >= LongBits THEN {Done(push_int(s2, 0), "shift")}
  ELSE {IF val32 = val64
        THEN Done(push_int(s2, val32), IF ShiftDefined(lhint, rhint, IntBits) THEN "none" ELSE "shift")
        ELSE Done(push_int64(s2, val64), IF ShiftDefined(lhint, rhint, IntBits) THEN "none" ELSE "shift")
        : val32 \in ShiftLeft(lhint, rhint, IntBits), val64 \in ShiftLeft(lhint, rhint, LongBits)}

\* The part of eval_vlsl after the shift count was reduced
ShiftLeftBy(s1, rhint) ==
  LET lhitem == GET_TOPITEM(s1)
      lh == Top(s1)
      s2 == Pop(s1)
  IN  IF lhitem = STACK_INT THEN ShiftInt(s2, lh.v, rhint)
      ELSE IF lhitem = STACK_INT64 \/ lhitem = STACK_FLOAT THEN
        IF rhint < LongBits
        THEN {Done(push_int64(s2, val64), IF ShiftDefined(AsInt64(lh), rhint, LongBits) THEN "none" ELSE "shift")
              : val64 \in ShiftLeft(AsInt64(lh), rhint, LongBits)}
        ELSE {Ok(push_int(s2, 0))}
      ELSE want_number(s1)

eval_vlsl(s) ==
  UNION {IF c.err # "ERR_NONE" THEN {Fail(Pop(s), c.err)} ELSE ShiftLeftBy(Pop(s), Reduce(c.v))
         : c \in ShiftCount(Top(s))}

\* The part of eval_vlsr after 'rhuint %= 256'
ShiftRightBy(s1, rhuint) ==
  LET lhitem == GET_TOPITEM(s1)
      lh == Top(s1)
      s2 == Pop(s1)
  IN  IF lhitem = STACK_INT THEN
        IF rhuint < IntBits
        THEN {Ok(push_int(s2, ((lh.v % 2^IntBits) \div 2^rhuint) % 2^(IntBits - 1)))}
        ELSE {Ok(push_int(s2, 0))}
      ELSE IF lhitem = STACK_INT64 \/ lhitem = STACK_FLOAT THEN
        IF rhuint < LongBits
        THEN {Ok(push_int64(s2, ((AsInt64(lh) % 2^LongBits) \div 2^rhuint) % 2^(LongBits - 1)))}
        ELSE {Ok(push_int(s2, 0))}
      ELSE want_number(s1)

eval_vlsr(s) ==
  UNION {IF c.err # "ERR_NONE" THEN {Fail(Pop(s), c.err)}
         ELSE ShiftRightBy(Pop(s), (c.v % 2^IntBits) % ShiftRange)
         : c \in ShiftCount(Top(s))}

\* The part of eval_vasr after the shift count was reduced
ArithShiftBy(s1, rhint) ==
  LET lhitem == GET_TOPITEM(s1)
      lh == Top(s1)
      s2 == Pop(s1)
  IN  IF lhitem = STACK_INT THEN
        IF rhint < IntBits
        THEN {Ok(push_int(s2, OrSign(y, lh.v, IntBits))) : y \in ShiftRight(lh.v, rhint, IntBits)}
        ELSE {Ok(push_int(s2, 0))}
      ELSE IF lhitem = STACK_INT64 \/ lhitem = STACK_FLOAT THEN
        IF rhint < LongBits
        THEN {Ok(push_int64(s2, OrSign(y, AsInt64(lh), LongBits))) : y \in ShiftRight(AsInt64(lh), rhint, LongBits)}
        ELSE {Ok(push_int(s2, 0))}
      ELSE want_number(s1)

eval_vasr(s) ==
  UNION {IF c.err # "ERR_NONE" THEN {Fail(Pop(s), c.err)} ELSE ArithShiftBy(Pop(s), Reduce(c.v))
         : c \in ShiftCount(Top(s))}

(***************************************************************************)
(* The logical operators AND, OR and EOR                                   *)
(***************************************************************************)
\* Bit k of the result for the bits x and y of the operands
RECURSIVE BitsOf(_, _, _, _)
BitsOf(op, a, b, k) ==
  IF k = 0 THEN 0
  ELSE LET x == a % 2
           y == b % 2
           r == IF op = OP_AND THEN x * y
                ELSE IF op = OP_OR THEN (IF x + y > 0 THEN 1 ELSE 0)
                ELSE (x + y) % 2
       IN  r + 2 * BitsOf(op, a \div 2, b \div 2, k - 1)

\* a & b, a | b, a ^ b on two's complement operands
LogicOp(op, a, b) == ToInt64(BitsOf(op, a % 2^LongBits, b % 2^LongBits, LongBits))

\* The if-chain on lhitem of the nine functions: AND_INT / OR_INT / EOR_INT
\* update the int32 entry on top in place, AND_INT64 / OR_INT64 / EOR_INT64
\* the int64 entry, and a float is converted with TOINT64 when 'wide' and
\* with TOINT otherwise
LogicLeft(s1, rhint, op, wide) ==
  LET lhitem == GET_TOPITEM(s1)
      lh == Top(s1)
      s2 == Pop(s1)
  IN  IF lhitem = STACK_INT THEN {Ok(push_int(s2, LogicOp(op, lh.v, rhint)))}
      ELSE IF lhitem = STACK_INT64 THEN {Ok(push_int64(s2, LogicOp(op, lh.v, rhint)))}
      ELSE IF lhitem = STACK_FLOAT THEN
        IF wide THEN {Ok(push_int64(s2, LogicOp(op, TOINT64(lh.v), rhint)))}
        ELSE {Ok(push_int(s2, LogicOp(op, TOINT(lh.v), rhint)))}
      ELSE want_number(s1)

eval_ivand(s) == LogicLeft(Pop(s), Top(s).v, OP_AND, FALSE)
eval_iv64and(s) == LogicLeft(Pop(s), Top(s).v, OP_AND, TRUE)
eval_fvand(s) == LogicLeft(Pop(s), TOINT64(Top(s).v), OP_AND, FALSE)
eval_ivor(s) == LogicLeft(Pop(s), Top(s).v, OP_OR, FALSE)
eval_iv64or(s) == LogicLeft(Pop(s), Top(s).v, OP_OR, TRUE)
eval_fvor(s) == LogicLeft(Pop(s), TOINT(Top(s).v), OP_OR, FALSE)
eval_iveor(s) == LogicLeft(Pop(s), Top(s).v, OP_EOR, FALSE)
\* 'int64 rhint = pop_int()': the int64 entry on top is popped as an int32
eval_iv64eor(s) == Undefined(Pop(Pop(s)), "badpop")
eval_fveor(s) == LogicLeft(Pop(s), TOINT(Top(s).v), OP_EOR, FALSE)

(***************************************************************************)
(* The relational operators on strings                                     *)
(***************************************************************************)
BASTRUE == 0 - 1
BASFALSE == 0

\* memcmp over the first n bytes, from byte i: the sign of the difference of
\* the first pair of bytes that differ (bytes compare as unsigned char)
RECURSIVE memcmp_from(_, _, _, _)
memcmp_from(a, b, i, n) ==
  IF i > n THEN 0
  ELSE IF a[i] < b[i] THEN 0 - 1
  ELSE IF a[i] > b[i] THEN 1
  ELSE memcmp_from(a, b, i + 1, n)
memcmp(a, b, n) == memcmp_from(a, b, 1, n)

\* 'complen' of eval_svgt, eval_svlt, eval_svge and eval_svle
complen(lhstring, rhstring) ==
  IF Len(lhstring) < Len(rhstring) THEN Len(lhstring) ELSE Len(rhstring)

\* The same tests with '>' where eval_svge has '>='
StringTest_StrictGe(op, lhstring, rhstring) ==
  LET result == memcmp(lhstring, rhstring, complen(lhstring, rhstring))
  IN  CASE op = OP_EQ ->
             IF Len(lhstring) # Len(rhstring) THEN FALSE
             ELSE memcmp(lhstring, rhstring, Len(lhstring)) = 0
        [] op = OP_NE ->
             IF Len(lhstring) # Len(rhstring) THEN TRUE
             ELSE memcmp(lhstring, rhstring, Len(lhstring)) # 0
        [] op = OP_GT -> result > 0 \/ (result = 0 /\ Len(lhstring) > Len(rhstring))
        [] op = OP_LT -> result < 0 \/ (result = 0 /\ Len(lhstring) < Len(rhstring))
        [] op = OP_GE -> result > 0 \/ (result = 0 /\ Len(lhstring) > Len(rhstring))
        [] op = OP_LE -> result < 0 \/ (result = 0 /\ Len(lhstring) <= Len(rhstring))

\* The test each of the six functions makes on the two popped strings
StringTest(op, lhstring, rhstring) ==
  LET result == memcmp(lhstring, rhstring, complen(lhstring, rhstring))
  IN  CASE op = OP_EQ ->
             IF Len(lhstring) # Len(rhstring) THEN FALSE
             ELSE memcmp(lhstring, rhstring, Len(lhstring)) = 0
        [] op = OP_NE ->
             IF Len(lhstring) # Len(rhstring) THEN TRUE
             ELSE memcmp(lhstring, rhstring, Len(lhstring)) # 0
        [] op = OP_GT -> result > 0 \/ (result = 0 /\ Len(lhstring) > Len(rhstring))
        [] op = OP_LT -> result < 0 \/ (result = 0 /\ Len(lhstring) < Len(rhstring))
        [] op = OP_GE -> result > 0 \/ (result = 0 /\ Len(lhstring) >= Len(rhstring))
        [] op = OP_LE -> result < 0 \/ (result = 0 /\ Len(lhstring) <= Len(rhstring))

\* rhstring = pop_string(); the left-hand operand must be a string too
StringCompare(s, op) ==
  LET rhstring == Top(s).v
      s1 == Pop(s)
      lhitem == GET_TOPITEM(s1)
  IN  IF lhitem # STACK_STRING /\ lhitem # STACK_STRTEMP THEN want_string(s1)
      ELSE {Ok(push_int(Pop(s1),
                        IF StringTest(op, Top(s1).v, rhstring) THEN BASTRUE ELSE BASFALSE))}

eval_sveq(s) == StringCompare(s, OP_EQ)
eval_svne(s) == StringCompare(s, OP_NE)
eval_svgt(s) == StringCompare(s, OP_GT)
eval_svlt(s) == StringCompare(s, OP_LT)
eval_svge(s) == StringCompare(s, OP_GE)
eval_svle(s) == StringCompare(s, OP_LE)
(***************************************************************************)
(* The power operator.  pow() of the C library: the exact rational when    *)
(* the exponent is whole and the result has at most PowBits bits, <<1, 0>> *)
(* for infinity, <<0, 0>> for a NaN, and the unevaluated power             *)
(* <<n, d, yn, yd>> for every other float64 result                         *)
(***************************************************************************)
PowBits == 20
FInf == <<1, 0>>
FNaN == <<0, 0>>

\* b^n, or 2^PowBits + 1 when its magnitude exceeds 2^PowBits
RECURSIVE IntPow(_, _, _)
IntPow(b, n, acc) ==
  IF n = 0 THEN acc
  ELSE IF b = 1 THEN acc
  ELSE IF b = 0 - 1 THEN (IF n % 2 = 0 THEN acc ELSE 0 - acc)
  ELSE IF Abs(acc) > 2^PowBits \div Abs(b) THEN 2^PowBits + 1
  ELSE IntPow(b, n - 1, acc * b)

pow(x, y) ==
  LET n == Abs(y[1])
      num == IntPow(x[1], n, 1)
      den == IntPow(x[2], n, 1)
  IN  IF y[1] = 0 \/ x = TOFLOAT(1) THEN TOFLOAT(1)
      ELSE IF x[1] = 0 THEN (IF y[1] > 0 THEN FZero ELSE FInf)
      ELSE IF y[2] # 1 THEN (IF x[1] < 0 THEN FNaN ELSE <<x[1], x[2], y[1], y[2]>>)
      ELSE IF Abs(num) > 2^PowBits \/ den > 2^PowBits THEN <<x[1], x[2], y[1], y[2]>>
      ELSE IF y[1] > 0 THEN <<num, den>>
      ELSE Rat(den, num)

\* An integer result where both operands are integers
eval_vpow_Integer(s) ==
  LET rhitem == GET_TOPITEM(s)
      s1 == Pop(s)
      lhitem == GET_TOPITEM(s1)
  IN  IF ~IsNumber(rhitem) THEN {Fail(s, "ERR_BROKEN")}
      ELSE IF ~IsNumber(lhitem) THEN want_number(s1)
      ELSE IF lhitem # STACK_FLOAT /\ rhitem # STACK_FLOAT
           THEN {Ok(push_int(Pop(s1), Top(s1).v))}
      ELSE {Ok(push_float(Pop(s1), pow(AsFloat(Top(s1)), AsFloat(Top(s)))))}

eval_vpow(s) ==
  LET rhitem == GET_TOPITEM(s)
      floatvalue == AsFloat(Top(s))
      s1 == Pop(s)
      lhitem == GET_TOPITEM(s1)
  IN  IF ~IsNumber(rhitem) THEN {Fail(s, "ERR_BROKEN")}
      ELSE IF lhitem = STACK_INT THEN {Ok(push_float(Pop(s1), pow(TOFLOAT(Top(s1).v), floatvalue)))}
      ELSE IF lhitem = STACK_INT64 THEN {Ok(push_float(Pop(s1), pow(TOFLOAT(Top(s1).v), floatvalue)))}
      ELSE IF lhitem = STACK_FLOAT THEN {Ok(push_float(Pop(s1), pow(Top(s1).v, floatvalue)))}
      ELSE want_number(s1)

\* The operator implementations, with the ones of this section
CallOps(f, s) ==
  CASE f = "eval_svplus" -> eval_svplus(s)
    [] f = "eval_fvplus" -> eval_fvplus(s)
    [] f = "eval_fvmul" -> eval_fvmul(s)
    [] f = "eval_vlsl" -> eval_vlsl(s)
    [] f = "eval_vlsr" -> eval_vlsr(s)
    [] f = "eval_vasr" -> eval_vasr(s)
    [] f = "eval_ivand" -> eval_ivand(s)
    [] f = "eval_iv64and" -> eval_iv64and(s)
    [] f = "eval_fvand" -> eval_fvand(s)
    [] f = "eval_ivor" -> eval_ivor(s)
    [] f = "eval_iv64or" -> eval_iv64or(s)
    [] f = "eval_fvor" -> eval_fvor(s)
    [] f = "eval_iveor" -> eval_iveor(s)
    [] f = "eval_iv64eor" -> eval_iv64eor(s)
    [] f = "eval_fveor" -> eval_fveor(s)
    [] f = "eval_sveq" -> eval_sveq(s)
    [] f = "eval_svne" -> eval_svne(s)
    [] f = "eval_svgt" -> eval_svgt(s)
    [] f = "eval_svlt" -> eval_svlt(s)
    [] f = "eval_svge" -> eval_svge(s)
    [] f = "eval_svle" -> eval_svle(s)
    [] f = "eval_vpow" -> eval_vpow(s)
    [] OTHER -> Call(f, s)

(***************************************************************************)
(* One application of a dyadic operator to operands of every type          *)
(***************************************************************************)
Bytes == {65, 66}
Strings == UNION {[1..n -> Bytes] : n \in 0..MAXSTRING}

OpInts ==
  {MININTVAL, 0 - ShiftRange - 1, 0 - ShiftRange, 0 - IntBits, 0 - 1, 0, 1, 2, 3, IntBits - 1,
   IntBits, LongBits - 1, LongBits, ShiftRange - 1, ShiftRange, ShiftRange + 1,
   ShiftRange + IntBits, ShiftRange + LongBits, MAXINTVAL}
OpInt64s ==
  {MININT64VAL, 0 - 2^IntBits, 0 - 1, 0, 1, IntBits, ShiftRange, ShiftRange + IntBits,
   MAXINTVAL + 1, MAXINTVAL + ShiftRange, 2^IntBits, MAXINT64VAL}
OpFloats ==
  {FZero, <<1, 2>>, <<0 - 1, 2>>, <<0 - 3, 2>>, TOFLOAT(1), TOFLOAT(0 - 1), TOFLOAT(IntBits),
   <<2 * ShiftRange - 1, 2>>, TOFLOAT(ShiftRange), <<2 * ShiftRange + 1, 2>>,
   TOFLOAT(ShiftRange + IntBits), TOFLOAT(MAXINTVAL)}

\* Arrays that alias a variable, and the temporaries of the same shape, type
\* and contents that an array operation leaves
OpArrays ==
  {ArrE(STACK_INTARRAY, <<2>>, <<1, 2>>), ArrE(STACK_INTARRAY, <<3>>, <<0 - 1, 0, 3>>),
   ArrE(STACK_INT64ARRAY, <<2>>, <<2^IntBits, 1>>),
   ArrE(STACK_FLOATARRAY, <<2>>, <<F12, TOFLOAT(2)>>),
   ArrE(STACK_STRARRAY, <<2>>, <<<<65>>, <<>>>>),
   ArrE(STACK_STRARRAY, <<2>>, <<<<65, 66>>, <<66>>>>)}
TempOf(e) ==
  IF e.t \in {STACK_STRING, STACK_INTARRAY, STACK_INT64ARRAY, STACK_FLOATARRAY, STACK_STRARRAY}
  THEN [t |-> e.t + 1, v |-> e.v] ELSE e
Scalars ==
  {IntE(x) : x \in OpInts} \cup {Int64E(x) : x \in OpInt64s} \cup {FloatE(x) : x \in OpFloats}
    \cup {StrE(x) : x \in Strings}
LeftOperands == Scalars \cup OpArrays \cup {TempOf(e) : e \in Scalars \cup OpArrays}
RightOperands == Scalars \cup OpArrays \cup {StrTempE(x) : x \in Strings}

RelationalOperators == {OP_EQ, OP_NE, OP_GT, OP_LT, OP_GE, OP_LE}
AllOperators ==
  {OP_ADD, OP_SUB, OP_MUL, OP_DIV, OP_INTDIV, OP_MOD, OP_POW, OP_LSL, OP_LSR, OP_ASR, OP_AND,
   OP_OR, OP_EOR} \cup RelationalOperators

InitOps ==
  /\ Init
  /\ legacyintmaths = FALSE

PushOperand ==
  /\ pc = "operands"
  /\ Len(stack) < 2
  /\ \E e \in (IF Len(stack) = 0 THEN LeftOperands ELSE RightOperands) :
       stack' = Push(stack, e)
  /\ UNCHANGED <<err, ub, legacyintmaths, last, current, tokens, opstack, opstop,
                 lastop, thisop, pc, applied, formals, actuals, parmno, pending,
                 parmvals, entry, errarg, ref, USE_SDL, fnframe>>

\* (*opfunctions[thisop][GET_TOPITEM])()
Dispatch ==
  /\ pc = "operands"
  /\ Len(stack) = 2
  /\ \E op \in AllOperators :
       LET f == opfunctions[op + 1][GET_TOPITEM(stack) + 1]
       IN  \E o \in CallOps(f, stack) :
             /\ stack' = o.stack
             /\ err' = o.err
             /\ ub' = o.ub
             /\ last' = [op |-> op, fn |-> f, lh |-> stack[1], rh |-> stack[2]]
  /\ pc' = "applied"
  /\ UNCHANGED <<legacyintmaths, current, tokens, opstack, opstop, lastop, thisop,
                 applied, formals, actuals, parmno, pending, parmvals, entry, errarg, ref, USE_SDL, fnframe>>

NextOps == PushOperand \/ Dispatch

SpecOps == InitOps /\ [][NextOps]_vars

(***************************************************************************)
(* Properties of the operators on strings, of the shifts and of the        *)
(* logical operators                                                       *)
(***************************************************************************)
IsString(e) == e.t \in {STACK_STRING, STACK_STRTEMP}
\* The operator 'op' was applied to two string operands
StringsApplied(op) == pc = "applied" /\ last.op = op /\ IsString(last.lh) /\ IsString(last.rh)

\* C12: s+t is the string of length LEN(s)+LEN(t) made of the bytes of s
\* followed by the bytes of t when that length does not exceed the maximum
\* string length (s or t empty, s temporary or not), and the string-length
\* error is raised when it does.
C12_Concatenation ==
  StringsApplied(OP_ADD) =>
    IF Len(last.lh.v) + Len(last.rh.v) <= MAXSTRING
    THEN /\ err = "ERR_NONE"
         /\ Len(stack) = 1
         /\ IsString(stack[1])
         /\ Len(stack[1].v) = Len(last.lh.v) + Len(last.rh.v)
         /\ stack[1].v = last.lh.v \o last.rh.v
    ELSE err = "ERR_STRINGLEN"

\* Two different non-empty strings were joined, the left one a temporary
C12_TemporaryJoined ==
  /\ StringsApplied(OP_ADD)
  /\ last.lh = StrTempE(<<65>>)
  /\ last.rh = StrE(<<66, 66>>)
  /\ stack = <<StrTempE(<<65, 66, 66>>)>>

\* C13: every pop performed by an operator implementation uses the accessor
\* that matches the type tag of the entry on top of the stack: no operator
\* applied to any pair of operands pops an entry through another accessor.
C13_MatchingPop == pc = "applied" => ub # "badpop"

\* An int64 right-hand operand of EOR was popped with pop_int()
C13_Int64PoppedAsInt ==
  /\ pc = "applied"
  /\ last.fn = "eval_iv64eor"
  /\ last.rh.t = STACK_INT64
  /\ ub = "badpop"

IsArithmetic(op) == op \in {OP_ADD, OP_SUB, OP_MUL, OP_DIV, OP_INTDIV, OP_MOD, OP_LSL, OP_LSR, OP_ASR, OP_AND, OP_OR, OP_EOR}

\* C14: for every arithmetic, shift and logical operator with a numeric
\* scalar right-hand operand, a string left-hand operand (temporary or not)
\* raises the numeric type error and the stack is otherwise left alone: the
\* string is still on it.
C14_StringLeft ==
  (pc = "applied" /\ IsArithmetic(last.op) /\ IsString(last.lh) /\ IsNumber(last.rh.t)) =>
    (err = "ERR_TYPENUM" /\ ub = "none" /\ stack = <<last.lh>>)

\* A string was added to a float and popped as an array
C14_StringPoppedAsArray ==
  /\ pc = "applied"
  /\ last.op = OP_ADD
  /\ last.lh = StrE(<<65>>)
  /\ last.rh = FloatE(<<1, 2>>)
  /\ ub = "badpop"

IsTempArray(e) == e.t \in {STACK_IATEMP, STACK_I64ATEMP, STACK_FATEMP, STACK_SATEMP}
\* The array variable of the same shape, element type and contents
NonTemp(e) == [t |-> e.t - 1, v |-> e.v]
\* What the outcome o shows: the error, or the values left on the stack
Outcome(o) == IF o.err # "ERR_NONE" THEN <<o.err>> ELSE <<o.err, [n \in 1..Len(o.stack) |-> o.stack[n].v]>>

\* C15: an operator applied to a temporary array left-hand operand gives the
\* outcome (the element values, or the error) that it gives for an array
\* variable of the same shape, element type and contents.
C15_TemporaryLeft ==
  (pc = "applied" /\ IsTempArray(last.lh)) =>
    Outcome([stack |-> stack, err |-> err]) \in
      {Outcome(o) : o \in CallOps(last.fn, <<NonTemp(last.lh), last.rh>>)}

\* 1 was added to a temporary int32 array and the addition was refused
C15_TemporaryRefused ==
  /\ pc = "applied"
  /\ last.op = OP_ADD
  /\ last.lh = IATEMP(<<2>>, <<1, 2>>)
  /\ last.rh = IntE(1)
  /\ err = "ERR_BADARITH"

\* The entry that the amount plus 256 evaluates to: an integer sum that fits
\* is a 32-bit integer, one that does not a 64-bit integer
PlusRange(e) ==
  IF e.t = STACK_FLOAT THEN FloatE(FAdd(e.v, TOFLOAT(ShiftRange)))
  ELSE IF InInt32(e.v + ShiftRange) THEN IntE(e.v + ShiftRange)
  ELSE Int64E(ToInt64(e.v + ShiftRange))
\* A logical left shift by a number was applied
LeftShifted == pc = "applied" /\ last.op = OP_LSL /\ IsNumber(last.rh.t)

\* C17: for every left operand and every shift amount n, a logical left
\* shift by n+256 gives the same result (type and value) as a shift by n.
C17_AmountWraps ==
  LeftShifted => eval_vlsl(<<last.lh, PlusRange(last.rh)>>) = eval_vlsl(<<last.lh, last.rh>>)

\* C17 for the shift amounts n without a fractional part for which n and
\* n+256 are both 32-bit integers.
C17_WholeAmountWraps ==
  (LeftShifted /\ IsWhole(last.rh) /\ InInt32(WholeValue(last.rh))
     /\ InInt32(WholeValue(last.rh) + ShiftRange)) =>
    eval_vlsl(<<last.lh, PlusRange(last.rh)>>) = eval_vlsl(<<last.lh, last.rh>>)

\* 1 shifted left by 256+32 is the 64-bit integer 2^32
C17_ShiftByWidth ==
  /\ LeftShifted
  /\ last.lh = IntE(1)
  /\ last.rh = IntE(ShiftRange + IntBits)
  /\ stack = <<Int64E(2^IntBits)>>

\* C18: ASR keeps the sign of an integer left operand: the result is negative
\* for every negative int32 or int64 left operand and every shift amount, and
\* is not negative for a left operand that is not negative.
C18_SignPreserved ==
  (pc = "applied" /\ last.op = OP_ASR /\ last.lh.t \in {STACK_INT, STACK_INT64}
     /\ IsNumber(last.rh.t) /\ err = "ERR_NONE") =>
    (Len(stack) = 1 /\ (stack[1].v < 0) = (last.lh.v < 0))

\* -1 shifted right by 32 places is 0
C18_SignLost ==
  /\ pc = "applied"
  /\ last.op = OP_ASR
  /\ last.lh = IntE(0 - 1)
  /\ last.rh = IntE(IntBits)
  /\ stack = <<IntE(0)>>

(***************************************************************************)
(* Properties of the indirection suffixes                                  *)
(***************************************************************************)
\* A reference A(i)?x, A(i)!x, V?x or V!x was evaluated whose element and
\* operand are numbers
SuffixRef ==
  /\ pc = "done"
  /\ ref.form \in {"arrayref", "statindvar"}
  /\ ref.suffix \in {ByteOperator, WordOperator}
  /\ IsNumber(ref.operand.t)
  /\ ref.form = "arrayref" =>
       /\ ref.arr.t \in {STACK_INTARRAY, STACK_INT64ARRAY, STACK_FLOATARRAY}
       /\ Len(ref.arr.v.dims) = 1
       /\ Len(ref.indexes) = 1
       /\ ref.indexes[1].t = STACK_INT
       /\ 0 <= ref.indexes[1].v /\ ref.indexes[1].v < ref.arr.v.dims[1]
\* The address the reference reads
BaseOf(r) ==
  IF r.form = "statindvar" THEN r.value.v
  ELSE IF r.arr.t = STACK_FLOATARRAY THEN TOINT64(r.arr.v.el[r.indexes[1].v + 1])
  ELSE r.arr.v.el[r.indexes[1].v + 1]
Address == BaseOf(ref) + OffsetOf(ref.operand, FALSE).v
\* The operator '?' or '!' on its own applied to the address a
Standalone(suffix, a) ==
  IF suffix = ByteOperator
  THEN GetByte(Reference("getbyte", NoEntry, NoEntry, <<>>, EndToken, ByteOperator, Int64E(a)))
  ELSE GetWord(Reference("getword", NoEntry, NoEntry, <<>>, EndToken, WordOperator, Int64E(a)))

\* C16: a byte or word read through an indirection suffix on an array
\* element or a static variable returns what the operator '?' or '!' on its
\* own returns for the same address, inside the display window as well.
C16_SameRead ==
  SuffixRef =>
    [val |-> IF err = "ERR_NONE" THEN Top(stack) ELSE NoEntry, err |-> err] \in
      {[val |-> o.val, err |-> o.err] : o \in Standalone(ref.suffix, Address)}

\* A byte of the display window was read from the memory image
C16_WindowNotRedirected ==
  /\ SuffixRef
  /\ USE_SDL
  /\ ref.suffix = ByteOperator
  /\ Address = MODE7FB
  /\ stack = <<IntE(offbase(MODE7FB))>>
  /\ IntE(offbase(MODE7FB)) \notin {o.val : o \in Standalone(ByteOperator, MODE7FB)}

(***************************************************************************)
(* Properties of argument counts and of the values bound                   *)
(***************************************************************************)
\* The call is over and it had more arguments than the definition has
\* parameters; its argument list closed while parameters remained
TooManyActuals == pc = "done" /\ Len(actuals) > Len(formals.parmlist)
TooFewActuals ==
  pc = "done" /\ Len(actuals) < Len(formals.parmlist) /\ tokens[Len(actuals)] = RightBracket
\* The arguments that have a parameter all pass the type check
ArgumentsAccepted ==
  \A i \in 1..Len(actuals) :
    i <= Len(formals.parmlist) =>
      (actuals[i].t >= STACK_INT /\ actuals[i].t <= STACK_SATEMP
         /\ TypeCheck(formals.parmlist[i], actuals[i].t) = "ERR_NONE")

\* C19: a call with more arguments than parameters raises the too-many
\* error naming the procedure, and one whose argument list closes while
\* parameters remain raises the not-enough error naming it, on the path for a
\* single integer parameter and on the general path.
C19_CountErrors ==
  /\ TooManyActuals => (err = "ERR_TOOMANY" /\ errarg = <<procname>>)
  /\ TooFewActuals => (err = "ERR_NOTENUFF" /\ errarg = <<procname>>)

\* C19 for the calls whose arguments pass the type check of their parameter.
C19_CountErrorsAccepted ==
  /\ (TooManyActuals /\ (formals.simple \/ ArgumentsAccepted)) =>
       (err = "ERR_TOOMANY" /\ errarg = <<procname>>)
  /\ (TooFewActuals /\ ArgumentsAccepted) => (err = "ERR_NOTENUFF" /\ errarg = <<procname>>)

\* A second argument was given to a definition with one integer parameter
C19_TooManyOnFastPath ==
  /\ TooManyActuals
  /\ formals.simple
  /\ err = "ERR_TOOMANY"
  /\ errarg = <<procname>>

\* The number an argument stands for, and whether the parameter type holds it
NumberOf(a) == IF a.t = STACK_FLOAT THEN Trunc(a.v) ELSE a.v
IsNumericFormal(formal) ==
  formal \in {"VAR_INTWORD", "VAR_INTLONG", "VAR_FLOAT", "VAR_INTBYTEPTR", "VAR_INTWORDPTR", "VAR_FLOATPTR"}
Representable(a, formal) ==
  CASE formal \in {"VAR_INTWORD", "VAR_INTWORDPTR"} -> InInt32(NumberOf(a))
    [] formal = "VAR_INTLONG" -> InInt64(NumberOf(a))
    [] formal = "VAR_INTBYTEPTR" -> 0 <= NumberOf(a) /\ NumberOf(a) < 2^ByteBits
    [] OTHER -> TRUE
\* The argument converted to the type of the parameter
Converted(a, formal) ==
  CASE formal \in {"VAR_INTWORD", "VAR_INTWORDPTR", "VAR_INTBYTEPTR"} -> IntE(NumberOf(a))
    [] formal = "VAR_INTLONG" -> Int64E(NumberOf(a))
    [] OTHER -> FloatE(AsFloat(a))

\* C20: after a successful binding every numeric parameter (integer, 64-bit
\* integer, float, and the indirect byte, word and float) holds the value of
\* its int32, int64 or float argument converted to the type of the parameter,
\* when the parameter type can represent it.
C20_Converted ==
  (pc = "done" /\ err = "ERR_NONE") =>
    \A i \in 1..Len(formals.parmlist) :
      (IsNumber(actuals[i].t) /\ IsNumericFormal(formals.parmlist[i])
         /\ Representable(actuals[i], formals.parmlist[i])) =>
        parmvals[i] = Converted(actuals[i], formals.parmlist[i])

\* The 64-bit integer 3 was bound to an indirect byte parameter, which holds 0
C20_Int64Dropped ==
  /\ pc = "done"
  /\ err = "ERR_NONE"
  /\ formals.parmlist = <<"VAR_INTBYTEPTR">>
  /\ actuals = <<Int64E(3)>>
  /\ parmvals = <<IntE(0)>>

(***************************************************************************)
(* Properties of the relational operators on strings and of the power      *)
(* operator                                                                *)
(***************************************************************************)
\* What the function of operator 'op' leaves for the operands just applied
OutcomesOf(op) == CallOps(opfunctions[op + 1][last.rh.t + 1], <<last.lh, last.rh>>)
IsTrue(op) == OutcomesOf(op) = {Ok(<<IntE(BASTRUE)>>)}
IsFalse(op) == OutcomesOf(op) = {Ok(<<IntE(BASFALSE)>>)}
\* The order of the specification: the first byte that differs within the
\* shorter length decides, then the shorter string comes first
LexLess(s, t) ==
  \E k \in 1..(complen(s, t) + 1) :
    /\ \A i \in 1..(k - 1) : s[i] = t[i]
    /\ IF k <= complen(s, t) THEN s[k] < t[k] ELSE Len(s) < Len(t)
StringsCompared ==
  pc = "applied" /\ last.op \in RelationalOperators /\ IsString(last.lh) /\ IsString(last.rh)

\* C21: for all strings s and t the six relational operators agree with one
\* total order (lexicographic by bytes over the shorter length, then shorter
\* string first): exactly one of s<t, s=t, s>t is TRUE, s<=t is TRUE iff s>t
\* is FALSE, s>=t is TRUE iff s<t is FALSE, s<>t is TRUE iff s=t is FALSE,
\* and each result is the 32-bit integer TRUE or FALSE.
C21_TotalOrder ==
  StringsCompared =>
    /\ err = "ERR_NONE"
    /\ OutcomesOf(last.op) = {Ok(stack)}
    /\ \A op \in RelationalOperators : IsTrue(op) \/ IsFalse(op)
    /\ Cardinality({op \in {OP_LT, OP_EQ, OP_GT} : IsTrue(op)}) = 1
    /\ IsTrue(OP_LE) <=> IsFalse(OP_GT)
    /\ IsTrue(OP_GE) <=> IsFalse(OP_LT)
    /\ IsTrue(OP_NE) <=> IsFalse(OP_EQ)
    /\ IsTrue(OP_LT) <=> LexLess(last.lh.v, last.rh.v)
    /\ IsTrue(OP_GT) <=> LexLess(last.rh.v, last.lh.v)
    /\ IsTrue(OP_EQ) <=> last.lh.v = last.rh.v

\* A string was found greater than or equal to an equal temporary string
C21_EqualStringsGe ==
  /\ StringsCompared
  /\ last.op = OP_GE
  /\ last.lh = StrE(<<65, 66>>)
  /\ last.rh = StrTempE(<<65, 66>>)
  /\ stack = <<IntE(BASTRUE)>>

\* C22: the power operator leaves a floating point value on the stack for
\* every combination of int32, int64 and float operands, never an integer;
\* 2^3 leaves the float 8.0.
C22_FloatResult ==
  (pc = "applied" /\ last.op = OP_POW /\ IsNumber(last.lh.t) /\ IsNumber(last.rh.t)) =>
    /\ err = "ERR_NONE"
    /\ Len(stack) = 1
    /\ stack[1].t = STACK_FLOAT
    /\ (last.lh = IntE(2) /\ last.rh = IntE(3)) => stack[1].v = TOFLOAT(8)

\* Two int32 operands were raised: 2^3
C22_TwoCubed ==
  /\ pc = "applied"
  /\ last.op = OP_POW
  /\ last.lh = IntE(2)
  /\ last.rh = IntE(3)
  /\ stack = <<FloatE(TOFLOAT(8))>>

(***************************************************************************)
(* Properties of the operator stack                                        *)
(***************************************************************************)
\* The entries at or below the pointer expression() was entered with
KeptBelowEntry == \A i \in 1..entry.opstop : opstack[i] = entry.opstack[i]

ShiftTokens == {129, 134, 135}
\* A shift operator stands next to a relational operator or to another shift
ShiftAdjacent ==
  \E k \in OpPositions :
    /\ k + 2 \in OpPositions
    /\ {tokens[k], tokens[k + 2]} \subseteq Relational \cup ShiftTokens
    /\ {tokens[k], tokens[k + 2]} \cap ShiftTokens # {}
\* The expression starts with two adjacent operators of which one is a shift
\* and the other a shift or a relational operator
ShiftLeads ==
  /\ Len(tokens) >= 6
  /\ {tokens[2], tokens[4]} \subseteq Relational \cup ShiftTokens
  /\ {tokens[2], tokens[4]} \cap ShiftTokens # {}
FirstApplication == [op |-> optable[tokens[2]] % (OPERMASK + 1), lh |-> [f |-> 1], rh |-> [f |-> 3]]

\* C24 as stated: an expression in which a shift operator is adjacent to a
\* relational operator or to another shift operator, and which has no two
\* chained relational operators, is evaluated completely: every operator is
\* applied and every operand consumed.
C24_ShiftsEvaluated ==
  (ReturnedNormally /\ ShiftAdjacent /\ ~HasChain) =>
    /\ current = EndPosition
    /\ Len(applied) = Cardinality(OpPositions)

\* C24 as the code has it: the shifts are in the priority class of the
\* relational operators and the restriction applies to them too, so of
\* 'a << b = c' and 'a << b << c' only 'a << b' is evaluated and the stream
\* position is left on the second operator.
C24_ShiftsChain ==
  (ReturnedNormally /\ ShiftLeads) =>
    /\ current = 4
    /\ applied = <<FirstApplication>>
    /\ stack = Append(entry.stack, FirstApplication)

\* 'a << b = c' has been evaluated up to the '='
C24_ShiftThenEquals ==
  /\ ReturnedNormally
  /\ tokens = <<VarToken, 134, VarToken, 61, VarToken, EndToken>>
  /\ current = 4
  /\ Len(applied) = 1

\* C29: factor() called while an enclosing complex expression has a pending
\* operator on top of the operator stack leaves the operator stack as it
\* was: after its normal return the pointer and every entry, the top one
\* included, are the same as before the call.
C29_OperatorStackKept ==
  (pc = "factored" /\ err = "ERR_NONE") => (opstop = entry.opstop /\ opstack = entry.opstack)

\* factor() returned with the mark in place of the pending '+' of the
\* enclosing expression
C29_PendingOverwritten ==
  /\ pc = "factored"
  /\ err = "ERR_NONE"
  /\ entry.opstack[entry.opstop] = ADDPRIO + OP_ADD
  /\ opstop = entry.opstop
  /\ opstack[opstop] = OPSTACKMARK

(***************************************************************************)
(* Matrix by vector                                                        *)
(***************************************************************************)
\* The terms of the dot product of row i (1-based) of L with the vector v
RowTerms(L, v, i) == [k \in 1..L.dims[2] |-> L.el[(i - 1) * L.dims[2] + k] * v.el[k]]
MatrixByVector ==
  /\ Applied(OP_MATMUL)
  /\ last.lh.t = STACK_INTARRAY /\ last.rh.t = STACK_INTARRAY
  /\ Len(last.lh.v.dims) = 2 /\ Len(last.rh.v.dims) = 1

\* C25: MATMUL of a 2-dimensional r x n array by a vector v of n elements
\* yields a 1-dimensional result of r elements in which element i is the dot
\* product of row i of the matrix with v (here: whenever every product and
\* running sum fits in an int32); a vector whose length differs from n
\* raises the matrix shape error.
C25_RowDotProducts ==
  MatrixByVector =>
    IF last.lh.v.dims[2] # last.rh.v.dims[1] THEN err = "ERR_MATARRAY"
    ELSE (\A i \in 1..last.lh.v.dims[1] : TermsInRange(RowTerms(last.lh.v, last.rh.v, i)))
         => /\ err = "ERR_NONE"
            /\ Len(stack) = 1
            /\ Top(stack).v.dims = <<last.lh.v.dims[1]>>
            /\ \A i \in 1..last.lh.v.dims[1] :
                 Top(stack).v.el[i] = SumTo(RowTerms(last.lh.v, last.rh.v, i), last.lh.v.dims[2])

\* A 2 x 2 array times a vector of 2 elements gave the dot product of the
\* first row in both elements
C25_FirstRowRepeated ==
  /\ MatrixByVector
  /\ last.lh.v = [dims |-> <<2, 2>>, el |-> <<1, 2, 3, MAXINTVAL>>]
  /\ last.rh.v = [dims |-> <<2>>, el |-> <<3, 0>>]
  /\ err = "ERR_NONE"
  /\ stack = <<IATEMP(<<2>>, <<3, 3>>)>>

(***************************************************************************)
(* References to arrays of several dimensions                              *)
(***************************************************************************)
\* A reference A(i0, ..., i(n-1)) with numeric indexes, closed by ')' and
\* without a suffix, to an array of two or more dimensions
SeveralDims ==
  /\ pc = "done"
  /\ ref.form = "arrayref"
  /\ Len(ref.arr.v.dims) >= 2
  /\ ref.closing = RightBracket
  /\ ref.suffix = EndToken
  /\ \A j \in 1..Len(ref.indexes) : IsNumber(ref.indexes[j].t)
IndexValue(j) ==
  IF ref.indexes[j].t = STACK_FLOAT THEN Trunc(ref.indexes[j].v) ELSE ref.indexes[j].v
\* (((i0 * d1 + i1) * d2 + i2) ...) + i(j-1)
RECURSIVE RowMajor(_)
RowMajor(j) ==
  IF j = 1 THEN IndexValue(1) ELSE RowMajor(j - 1) * ref.arr.v.dims[j] + IndexValue(j)

\* C26: for an array with k >= 2 dimensions, exactly k indexes each within
\* 0 <= i_j < d_j select the element at the row-major linear index, which is
\* below the total element count; fewer or more than k indexes always raise
\* the index-count error naming the array, whatever the values of the
\* indexes.
C26_IndexesOfSeveralDims ==
  SeveralDims =>
    IF Len(ref.indexes) # Len(ref.arr.v.dims)
    THEN err = "ERR_INDEXCO" /\ errarg = <<ref.name>>
    ELSE (\A j \in 1..Len(ref.indexes) : 0 <= IndexValue(j) /\ IndexValue(j) < ref.arr.v.dims[j])
         => /\ err = "ERR_NONE"
            /\ RowMajor(Len(ref.indexes)) < Product(ref.arr.v.dims)
            /\ stack = <<IntE(ref.arr.v.el[RowMajor(Len(ref.indexes)) + 1])>>

\* A(0, 0, 0) for an array of two dimensions was refused as a bad index
C26_SurplusIndexChecked ==
  /\ SeveralDims
  /\ ref.arr.v.dims = <<2, 3>>
  /\ ref.indexes = <<IntE(0), IntE(0), IntE(0)>>
  /\ err = "ERR_BADINDEX"
  /\ errarg = <<0, ref.name>>

(***************************************************************************)
(* The two stages of parameter binding                                     *)
(***************************************************************************)
Untouched == parmvals = [i \in 1..Len(formals.parmlist) |-> OldValue]
CallErrors == ParmTypeErrors \cup {"ERR_TOOMANY", "ERR_NOTENUFF"}

\* C27: every actual argument of a call is evaluated, type-checked and
\* count-checked, left to right, before the storage of any formal parameter
\* is modified; the formals are then assigned from the last parameter back
\* to the first; so a parameter-type, too-many or not-enough error leaves
\* every formal parameter with the value it had before the call.
C27_TwoStages ==
  /\ (~formals.simple /\ ~Untouched) =>
       /\ pc \in {"assign", "done"}
       /\ Len(pending) = Len(formals.parmlist)
       /\ Len(actuals) = Len(formals.parmlist)
       /\ \A i \in 1..Len(pending) : pending[i].typerr = "ERR_NONE"
  /\ ~formals.simple =>
       /\ \A i \in 1..Len(pending) : pending[i].parmtype = actuals[i].t
       /\ \A k \in 1..Len(stack) : stack[k].saved = Len(formals.parmlist) - k + 1
       /\ \A i \in 1..Len(parmvals) :
            parmvals[i] # OldValue => \A j \in i..Len(parmvals) : parmvals[j] # OldValue
  /\ err \in CallErrors => Untouched

\* The second argument of a call was refused for its type after the first
\* had been evaluated and accepted
C27_SecondRefused ==
  /\ pc = "done"
  /\ err \in ParmTypeErrors
  /\ parmno = 2
  /\ Len(pending) = 2
  /\ pending[1].typerr = "ERR_NONE"
  /\ Untouched

(***************************************************************************)
(* Calls of user-defined functions: do_xfunction and do_function.          *)
(*                                                                         *)
(* In this specification 'tokens' holds the token of one call site, which  *)
(* do_xfunction rewrites, 'formals' the parameter list of the function     *)
(* called there and 'actuals' the argument list written at the site (empty *)
(* when the call has no '(').  The operator stacks are numbered: stack 0   *)
(* is the one of the program, stack d the one made for the invocation at   *)
(* depth d; 'opstack' maps the number of a stack to its entries and a      *)
(* pointer into an operator stack is [stk |-> number, ix |-> index].  The  *)
(* Basic stack holds the blocks that push_fn saves.  The binding of the    *)
(* arguments is the subject of the specification SpecParm.                 *)
(***************************************************************************)
\* Bound of the depth of nested invocations
MaxDepth == 2
\* The tokens of a call not yet resolved and of a resolved call
BASIC_TOKEN_XFNPROCALL == 12
BASIC_TOKEN_FNPROCALL == 13
\* The name of the function called (vp->varname)
fnname == "FNf"
\* What memory holds before it is written
Unset == 0 - 1

\* make_opstack: a stack whose entries nothing has written yet
FreshStack == [i \in 1..(OPSTACKSIZE + 1) |-> Unset]
Depth == Len(stack)
gotparms == actuals # <<>>

\* reset_opstack going back to the operator stack of the program
reset_opstack_Program(os, limit) ==
  [opstop |-> [stk |-> 0, ix |-> 1], opstack |-> [os EXCEPT ![0][1] = OPSTACKMARK]]

\* reset_opstack: basicvars.opstop = basicvars.opstlimit - OPSTACKSIZE;
\* *basicvars.opstop = OPSTACKMARK
reset_opstack(os, limit) ==
  [opstop |-> [stk |-> limit.stk, ix |-> limit.ix - OPSTACKSIZE],
   opstack |-> [os EXCEPT ![limit.stk][limit.ix - OPSTACKSIZE] = OPSTACKMARK]]

InitCall ==
  /\ tokens = <<BASIC_TOKEN_XFNPROCALL>>
  /\ formals \in {[simple |-> FALSE, parmlist |-> <<>>],
                  [simple |-> TRUE, parmlist |-> <<"VAR_INTWORD">>],
                  [simple |-> FALSE, parmlist |-> <<"VAR_FLOAT", "VAR_STRINGDOL">>]}
  /\ actuals \in {<<>>, <<IntE(5)>>, <<FloatE(F12), [t |-> STACK_STRING, v |-> "hi"]>>}
  /\ (formals.parmlist # <<>> /\ actuals # <<>>) => Len(formals.parmlist) = Len(actuals)
  /\ opstack = [d \in 0..MaxDepth |-> IF d = 0 THEN OpStackOf(<<OPSTACKMARK>>) ELSE FreshStack]
  /\ opstop = [stk |-> 0, ix |-> 1]
  /\ fnframe = [opstlimit |-> [stk |-> 0, ix |-> 1 + OPSTACKSIZE], local_restart |-> 0]
  /\ stack = <<>>
  /\ pc = "site"
  /\ err = "ERR_NONE"
  /\ errarg = <<>>
  /\ ub = "none"
  /\ legacyintmaths = FALSE
  /\ last = [op |-> OP_NOP, fn |-> "", lh |-> NoEntry, rh |-> NoEntry]
  /\ current = 1
  /\ lastop = 0
  /\ thisop = 0
  /\ applied = <<>>
  /\ parmno = 0
  /\ pending = <<>>
  /\ parmvals = <<>>
  /\ entry = [stack |-> <<>>, opstack |-> <<>>, opstop |-> 0]
  /\ ref = <<>>
  /\ USE_SDL = FALSE

\* The body of do_function from push_fn on: the pointers of the caller are
\* saved, a new operator stack and a new restart point are made, and the
\* statements of the function are entered
EnterFunction(what) ==
  /\ stack' = Append(stack, [lastopstop |-> opstop, lastopstlimit |-> fnframe.opstlimit,
                             lastrestart |-> fnframe.local_restart])
  /\ opstop' = [stk |-> Depth + 1, ix |-> 1]
  /\ opstack' = [opstack EXCEPT ![Depth + 1] = FreshStack]
  /\ fnframe' = [opstlimit |-> [stk |-> Depth + 1, ix |-> 1 + OPSTACKSIZE],
                 local_restart |-> Depth + 1]
  /\ err' = "ERR_NONE"
  /\ errarg' = <<>>
  /\ ub' = what
  /\ pc' = "body"

\* An error raised by error(): control leaves the interpreter's function
RaiseAtSite(e, a, what) ==
  /\ err' = e
  /\ errarg' = a
  /\ ub' = what
  /\ pc' = "error"
  /\ UNCHANGED <<stack, opstop, opstack, fnframe>>

\* do_function at the call site: with a '(' push_parameters is called, which
\* reads dp->parmlist->parameter even if dp->parmlist is NIL
FunctionCalled ==
  IF gotparms /\ formals.parmlist = <<>>
  THEN RaiseAtSite("CRASH", <<>>, "nullparm") \/ EnterFunction("nullparm")
  ELSE EnterFunction("none")

\* The first execution of a call site
do_xfunction ==
  /\ pc = "site"
  /\ tokens[current] = BASIC_TOKEN_XFNPROCALL
  /\ tokens' = [tokens EXCEPT ![current] = BASIC_TOKEN_FNPROCALL]
  /\ IF gotparms /\ formals.parmlist = <<>> THEN RaiseAtSite("ERR_TOOMANY", <<fnname>>, "none")
     ELSE IF ~gotparms /\ formals.parmlist # <<>>
     THEN RaiseAtSite("ERR_NOTENUFF", <<fnname>>, "none")
     ELSE FunctionCalled
  /\ UNCHANGED <<legacyintmaths, last, current, lastop, thisop, applied, formals, actuals,
                 parmno, pending, parmvals, entry, ref, USE_SDL>>

\* Every later execution of the call site, and the calls made from the body
\* of a function
do_function ==
  /\ \/ pc = "site" /\ tokens[current] = BASIC_TOKEN_FNPROCALL /\ FunctionCalled
     \/ pc \in {"body", "handler"} /\ Depth < MaxDepth /\ EnterFunction("none")
  /\ UNCHANGED <<legacyintmaths, last, current, tokens, lastop, thisop, applied, formals,
                 actuals, parmno, pending, parmvals, entry, ref, USE_SDL>>

\* exec_fnstatements: expressions of the body move the operator-stack pointer
\* up and down above the base of the stack of the invocation
exec_fnstatements ==
  /\ pc \in {"body", "handler"}
  /\ \/ /\ opstop.ix < fnframe.opstlimit.ix
        /\ opstop' = [opstop EXCEPT !.ix = opstop.ix + 1]
        /\ opstack' = [opstack EXCEPT ![opstop.stk][opstop.ix + 1] = ADDPRIO + OP_ADD]
     \/ /\ opstop.ix > 1
        /\ opstop' = [opstop EXCEPT !.ix = opstop.ix - 1]
        /\ UNCHANGED opstack
  /\ pc' = "body"
  /\ UNCHANGED <<stack, err, ub, legacyintmaths, last, current, tokens, lastop, thisop, applied,
                 formals, actuals, parmno, pending, parmvals, entry, errarg, ref, USE_SDL,
                 fnframe>>

\* setjmp(*basicvars.local_restart) returns again: an error in the function
\* was trapped by ON ERROR LOCAL
restart ==
  /\ pc = "body"
  /\ fnframe.local_restart = Depth
  /\ opstop' = reset_opstack(opstack, fnframe.opstlimit).opstop
  /\ opstack' = reset_opstack(opstack, fnframe.opstlimit).opstack
  /\ pc' = "handler"
  /\ UNCHANGED <<stack, err, ub, legacyintmaths, last, current, tokens, lastop, thisop, applied,
                 formals, actuals, parmno, pending, parmvals, entry, errarg, ref, USE_SDL,
                 fnframe>>

\* The function returns: the block saved by push_fn is taken off the Basic
\* stack and the pointers of the caller are put back
fnreturn ==
  /\ pc \in {"body", "handler"}
  /\ opstop.ix = 1
  /\ opstop' = Top(stack).lastopstop
  /\ fnframe' = [opstlimit |-> Top(stack).lastopstlimit, local_restart |-> Top(stack).lastrestart]
  /\ stack' = Pop(stack)
  /\ pc' = IF Depth = 1 THEN "site" ELSE "body"
  /\ UNCHANGED <<err, ub, legacyintmaths, last, current, tokens, opstack, lastop, thisop,
                 applied, formals, actuals, parmno, pending, parmvals, entry, errarg, ref,
                 USE_SDL>>

\* The error raised at the call site was trapped by the program, which goes
\* on and comes to the call site again
continue ==
  /\ pc = "error"
  /\ err # "CRASH"
  /\ err' = "ERR_NONE"
  /\ errarg' = <<>>
  /\ pc' = "site"
  /\ UNCHANGED <<stack, ub, legacyintmaths, last, current, tokens, opstack, opstop, lastop,
                 thisop, applied, formals, actuals, parmno, pending, parmvals, entry, ref,
                 USE_SDL, fnframe>>

NextCall ==
  \/ do_xfunction
  \/ do_function
  \/ exec_fnstatements
  \/ restart
  \/ fnreturn
  \/ continue

SpecCall == InitCall /\ [][NextCall]_vars

(***************************************************************************)
(* Properties of function calls                                            *)
(***************************************************************************)
\* The argument list of the call site agrees with the parameter list
ListsAgree == gotparms <=> formals.parmlist # <<>>

\* C28: the check that the argument list matches the presence of formal
\* parameters is made on every execution of the call site: the first and
\* every later execution (also after the first error was trapped) raises the
\* not-enough error for a call without arguments to a function with formal
\* parameters and the too-many error for a call with arguments to a
\* function without.
C28_CheckedEveryTime ==
  /\ Depth >= 1 => ListsAgree
  /\ (pc = "error" /\ ~gotparms) => (err = "ERR_NOTENUFF" /\ errarg = <<fnname>>)
  /\ (pc = "error" /\ gotparms) => (err = "ERR_TOOMANY" /\ errarg = <<fnname>>)

\* The call site without arguments of a function with formal parameters was
\* executed a second time and the function was entered
C28_SecondTimeEntered ==
  /\ tokens[current] = BASIC_TOKEN_FNPROCALL
  /\ ~gotparms
  /\ formals.parmlist # <<>>
  /\ pc = "body"
  /\ Depth = 1
  /\ err = "ERR_NONE"

\* C30: each invocation saves the operator-stack pointer of the caller and
\* installs a fresh operator stack and a fresh restart point before the body
\* runs; when an error inside the function is trapped by its local error
\* handler the pointer is at the base of the operator stack of that
\* invocation, with the sentinel stored there, before the first statement of
\* the handler executes.
C30_FreshScope ==
  /\ Depth >= 1 =>
       /\ opstop.stk = Depth
       /\ fnframe.opstlimit = [stk |-> Depth, ix |-> 1 + OPSTACKSIZE]
       /\ fnframe.local_restart = Depth
       /\ \A d \in 1..Depth :
            /\ stack[d].lastopstop.stk = d - 1
            /\ stack[d].lastopstlimit.stk = d - 1
            /\ stack[d].lastrestart = d - 1
  /\ Depth = 0 => (opstop.stk = 0 /\ fnframe.opstlimit.stk = 0 /\ fnframe.local_restart = 0)
  /\ pc = "handler" =>
       /\ opstop = [stk |-> Depth, ix |-> 1]
       /\ opstack[Depth][1] = OPSTACKMARK

\* An error was trapped in a nested invocation while its operator stack and
\* the one of its caller held pending operators
C30_TrappedWhilePending ==
  /\ pc = "handler"
  /\ Depth = 2
  /\ stack[2].lastopstop.ix = 3
  /\ opstop = [stk |-> 2, ix |-> 1]
  /\ opstack[2][1] = OPSTACKMARK
  /\ opstack[2][2] = ADDPRIO + OP_ADD

====
